---- MODULE Spec2Model ----
(***************************************************************************)
(* Model of the SQL / PL-SQL dialect transpiler of DevFlow's reference     *)
(* generator (apps/backend/services/reference_generator/sql_converter.py). *)
(*                                                                         *)
(* SQL text is a TLA+ string; the regular expressions of the source are    *)
(* translated character by character into matching operators (Python `re` *)
(* semantics: leftmost match, greedy quantifiers, non-overlapping          *)
(* substitution).                                                          *)
(***************************************************************************)
EXTENDS Integers, Sequences, FiniteSets, TLC

VARIABLES
    pc,               \* position of the running call: convert_schema goes "start", its stages, "done"
    original_sql,     \* convert_schema: the text argument
    sql,              \* _convert_types, _convert_oracle_syntax, parse_create_table: the text argument
    procedure_sql,    \* convert_to_python: the text argument
    entity_mapping,   \* convert_to_python: dict old -> new, a sequence of pairs in insertion order
    type_key,         \* the key of _type_mappings naming the table _convert_types is given
    table_mappings,   \* convert_schema: dict old -> new, a sequence of pairs in insertion order
    column_mappings,  \* convert_schema: dict table -> {old: new}, flattened to <<table, old, new>> in iteration order
    source_dialect,   \* convert_schema argument
    target_dialect,   \* convert_schema argument
    converted,        \* the local `converted`: the text being rewritten
    reconverted,      \* the result of running the Syntax Rewriter over its own output
    cursor,           \* index of the next entry of the loop over table_mappings / column_mappings
    result,           \* convert_schema: the ConversionResult
    tables,           \* parse_create_table: the returned list of SQLTable
    parts,            \* _parse_columns: the fragments the captured body of the statement was split into
    frame,            \* the locals of the running call (convert_to_python: method_name, params, ...; generate_migration: from_dict, to_dict)
    stub,             \* convert_to_python: the returned text
    defs,             \* what the inputs were written from: the statement and its definitions; the result each shared call gives alone
    from_tables,      \* generate_migration: the list of SQLTable of the old schema
    to_tables,        \* generate_migration: the list of SQLTable of the new schema
    lines,            \* generate_migration: the local list `lines`
    migration,        \* generate_migration: the returned script
    shared,           \* ORACLE_TO_POSTGRES, MYSQL_TO_POSTGRES and the converter's _type_mappings
    calls,            \* the calls in progress on one shared converter, one record per caller
    type_map,         \* _convert_types: the dict it is given, a sequence of pairs in insertion order
    applied           \* _convert_types: the keys whose substitution has run, in the order they ran

vars == <<pc, original_sql, sql, procedure_sql, entity_mapping, type_key, table_mappings,
          column_mappings, source_dialect, target_dialect, converted, reconverted, cursor,
          result, tables, parts, frame, stub, defs, from_tables, to_tables, lines, migration,
          shared, calls, type_map, applied>>

\* the variables of generate_migration, of the calls sharing a converter, of the loop of _convert_types
Elsewhere == <<from_tables, to_tables, lines, migration, shared, calls, type_map, applied>>

\* their values while no such call runs
Idle ==
    /\ from_tables = <<>> /\ to_tables = <<>> /\ lines = <<>> /\ migration = ""
    /\ shared = <<>> /\ calls = <<>> /\ type_map = <<>> /\ applied = <<>>

-----------------------------------------------------------------------------
(* Characters and strings (Python str, ASCII).                             *)

Char(s, i) == SubSeq(s, i, i)

CharSet(s) == {Char(s, i) : i \in 1..Len(s)}

LowerAlpha == "abcdefghijklmnopqrstuvwxyz"

UpperAlpha == "ABCDEFGHIJKLMNOPQRSTUVWXYZ"

DigitAlpha == "0123456789"

LowerChars == CharSet(LowerAlpha)

UpperChars == CharSet(UpperAlpha)

DigitChars == CharSet(DigitAlpha)

\* \w of the re module
WordChars == LowerChars \cup UpperChars \cup DigitChars \cup {"_"}

\* \s of the re module (and what str.strip() removes)
SpaceChars == {" ", "\t", "\n", "\r", "\f"}

IsWord(c) == c \in WordChars

UpperOf == [c \in LowerChars |-> Char(UpperAlpha, CHOOSE i \in 1..26 : Char(LowerAlpha, i) = c)]

LowerOf == [c \in UpperChars |-> Char(LowerAlpha, CHOOSE i \in 1..26 : Char(UpperAlpha, i) = c)]

UpperChar(c) == IF c \in LowerChars THEN UpperOf[c] ELSE c

LowerChar(c) == IF c \in UpperChars THEN LowerOf[c] ELSE c

MinOf(S) == CHOOSE m \in S : \A x \in S : m <= x

MaxOf(S) == CHOOSE m \in S : \A x \in S : x <= m

\* body(v) for the value v of e.  A LET definition is evaluated anew at each of its uses;
\* a local bound through a set is evaluated once, like the local variable it stands for.
With(e, body(_)) == CHOOSE r \in {body(v) : v \in {e}} : TRUE

\* the string obtained by applying f to every character of s (by halves: the recursion stays shallow)
MapChars(s, f(_)) ==
    LET RECURSIVE go(_)
        go(t) ==
            IF Len(t) = 0 THEN ""
            ELSE IF Len(t) = 1 THEN f(t)
            ELSE go(SubSeq(t, 1, Len(t) \div 2)) \o go(SubSeq(t, Len(t) \div 2 + 1, Len(t)))
    IN  go(s)

\* str.upper()
upper(s) == MapChars(s, UpperChar)

\* str.lower()
lower(s) == MapChars(s, LowerChar)

\* s[i:] of Python, with i a 1-based index here
From(s, i) == SubSeq(s, i, Len(s))

\* str.startswith
startswith(s, p) == Len(p) <= Len(s) /\ SubSeq(s, 1, Len(p)) = p

\* the `in` operator on strings: p occurs in s
Contains(s, p) == \E i \in 1..(Len(s) - Len(p) + 1) : SubSeq(s, i, i + Len(p) - 1) = p

\* the end of the maximal run of characters of class cls starting at i (i itself when the run is empty)
RunEnd(s, i, cls) == MinOf({k \in i..(Len(s) + 1) : k > Len(s) \/ Char(s, k) \notin cls} \cup {MaxOf({i, Len(s) + 1})})

\* the end of the maximal run of characters outside cls starting at i
RunEndNot(s, i, cls) == MinOf({k \in i..(Len(s) + 1) : k > Len(s) \/ Char(s, k) \in cls} \cup {MaxOf({i, Len(s) + 1})})

\* the start of the maximal run of characters of class cls ending before j
RunStart(s, j, cls) == MaxOf({k \in 1..j : k = 1 \/ Char(s, k - 1) \notin cls})

\* str.lstrip(chars), str.rstrip(chars), str.strip()
lstrip(s, chars) == From(s, RunEnd(s, 1, chars))

rstrip(s, chars) == SubSeq(s, 1, RunStart(s, Len(s) + 1, chars) - 1)

strip(s) == rstrip(lstrip(s, SpaceChars), SpaceChars)

-----------------------------------------------------------------------------
(* Regular-expression primitives.  A position i is 1-based; a match is     *)
(* given by its start i and its end j (the index after its last character).*)
(* A matcher returns j, or 0 when the pattern does not match at i (no      *)
(* pattern of the source matches the empty string).                        *)

\* \b before position i
WordBoundary(s, i) ==
    LET before == i > 1 /\ i - 1 <= Len(s) /\ IsWord(Char(s, i - 1))
        after  == i >= 1 /\ i <= Len(s) /\ IsWord(Char(s, i))
    IN  before # after

\* a literal at i under re.IGNORECASE
LitAt(s, i, lit) ==
    /\ i >= 1
    /\ i + Len(lit) - 1 <= Len(s)
    /\ upper(SubSeq(s, i, i + Len(lit) - 1)) = upper(lit)

\* \([^)]+\) at i: the end of the group, or 0
ParenGroupEnd(s, i) ==
    IF i <= Len(s) /\ Char(s, i) = "("
    THEN LET k == RunEndNot(s, i + 1, {")"})
         IN  IF k <= Len(s) /\ k >= i + 2 THEN k + 1 ELSE 0
    ELSE 0

\* the start of the leftmost match at or after p, or 0
NextMatch(s, p, MatchEnd(_, _)) ==
    LET starts == {i \in p..Len(s) : MatchEnd(s, i) # 0}
    IN  IF starts = {} THEN 0 ELSE MinOf(starts)

\* re.sub(pattern, repl, s): MatchEnd(s, i) is the pattern, Repl(s, i, j) the replacement of the match [i, j);
\* matches are taken leftmost first and do not overlap
ReSub(s, MatchEnd(_, _), Repl(_, _, _)) ==
    LET RECURSIVE scan(_)
        scan(p) ==
            LET i == NextMatch(s, p, MatchEnd)
            IN  IF i = 0 THEN From(s, p)
                ELSE SubSeq(s, p, i - 1) \o Repl(s, i, MatchEnd(s, i)) \o scan(MatchEnd(s, i))
    IN  scan(1)

\* re.search(pattern, s): the start of the leftmost match, or 0
ReSearch(s, MatchEnd(_, _)) == NextMatch(s, 1, MatchEnd)

-----------------------------------------------------------------------------
(* Type mapping tables: dict[str, str] as a sequence of <<key, value>> in  *)
(* insertion order.                                                        *)

ORACLE_TO_POSTGRES == <<
    <<"NUMBER", "NUMERIC">>,
    <<"NUMBER(10)", "INTEGER">>,
    <<"NUMBER(19)", "BIGINT">>,
    <<"NUMBER(10,2)", "DECIMAL(10,2)">>,
    <<"NUMBER(19,2)", "DECIMAL(19,2)">>,
    <<"NUMBER(38)", "NUMERIC">>,
    <<"BINARY_FLOAT", "REAL">>,
    <<"BINARY_DOUBLE", "DOUBLE PRECISION">>,
    <<"VARCHAR2", "VARCHAR">>,
    <<"NVARCHAR2", "VARCHAR">>,
    <<"CHAR", "CHAR">>,
    <<"NCHAR", "CHAR">>,
    <<"CLOB", "TEXT">>,
    <<"NCLOB", "TEXT">>,
    <<"LONG", "TEXT">>,
    <<"DATE", "TIMESTAMP">>,
    <<"TIMESTAMP", "TIMESTAMP">>,
    <<"TIMESTAMP WITH TIME ZONE", "TIMESTAMPTZ">>,
    <<"TIMESTAMP WITH LOCAL TIME ZONE", "TIMESTAMPTZ">>,
    <<"INTERVAL YEAR TO MONTH", "INTERVAL">>,
    <<"INTERVAL DAY TO SECOND", "INTERVAL">>,
    <<"BLOB", "BYTEA">>,
    <<"RAW", "BYTEA">>,
    <<"LONG RAW", "BYTEA">>,
    <<"NUMBER(1)", "BOOLEAN">>,
    <<"ROWID", "TEXT">>,
    <<"UROWID", "TEXT">>,
    <<"XMLTYPE", "XML">> >>

MYSQL_TO_POSTGRES == <<
    <<"TINYINT", "SMALLINT">>,
    <<"SMALLINT", "SMALLINT">>,
    <<"MEDIUMINT", "INTEGER">>,
    <<"INT", "INTEGER">>,
    <<"INTEGER", "INTEGER">>,
    <<"BIGINT", "BIGINT">>,
    <<"DECIMAL", "DECIMAL">>,
    <<"NUMERIC", "NUMERIC">>,
    <<"FLOAT", "REAL">>,
    <<"DOUBLE", "DOUBLE PRECISION">>,
    <<"DOUBLE PRECISION", "DOUBLE PRECISION">>,
    <<"VARCHAR", "VARCHAR">>,
    <<"CHAR", "CHAR">>,
    <<"TINYTEXT", "TEXT">>,
    <<"TEXT", "TEXT">>,
    <<"MEDIUMTEXT", "TEXT">>,
    <<"LONGTEXT", "TEXT">>,
    <<"ENUM", "VARCHAR(255)">>,
    <<"SET", "VARCHAR(255)">>,
    <<"DATE", "DATE">>,
    <<"DATETIME", "TIMESTAMP">>,
    <<"TIMESTAMP", "TIMESTAMP">>,
    <<"TIME", "TIME">>,
    <<"YEAR", "SMALLINT">>,
    <<"TINYBLOB", "BYTEA">>,
    <<"BLOB", "BYTEA">>,
    <<"MEDIUMBLOB", "BYTEA">>,
    <<"LONGBLOB", "BYTEA">>,
    <<"BINARY", "BYTEA">>,
    <<"VARBINARY", "BYTEA">>,
    <<"BOOL", "BOOLEAN">>,
    <<"BOOLEAN", "BOOLEAN">>,
    <<"JSON", "JSONB">> >>

\* dict.keys(), in insertion order
Keys(map) == [i \in 1..Len(map) |-> map[i][1]]

HasKey(map, k) == \E i \in 1..Len(map) : map[i][1] = k

\* map[k]
Lookup(map, k) == map[CHOOSE i \in 1..Len(map) : map[i][1] = k][2]

\* SQLConverter.__init__: self._type_mappings
_type_mappings == <<
    <<"oracle_to_postgresql", ORACLE_TO_POSTGRES>>,
    <<"mysql_to_postgresql", MYSQL_TO_POSTGRES>> >>

-----------------------------------------------------------------------------
(* Type Mapping Engine: SQLConverter._convert_types.                       *)

\* sorted(keys, key=len, reverse=True): by length descending, keys of equal length in their original order
RECURSIVE SortedFrom(_, _)
SortedFrom(keys, n) ==
    IF n = 0 THEN <<>>
    ELSE SelectSeq(keys, LAMBDA k : Len(k) = n) \o SortedFrom(keys, n - 1)

\* the keys as the dict yields them, unsorted
InsertionOrder(map) == Keys(map)

sorted_types(map) ==
    IF map = <<>> THEN <<>>
    ELSE SortedFrom(Keys(map), MaxOf({Len(map[i][1]) : i \in 1..Len(map)}))

\* the pattern without its word boundaries: rf"{re.escape(oracle_type)}(\([^)]+\))?" at i
TypeMatchEndUnbounded(s, i, oracle_type) ==
    LET e == i + Len(oracle_type)
    IN  IF LitAt(s, i, oracle_type)
        THEN LET g == ParenGroupEnd(s, e) IN IF g = 0 THEN e ELSE g
        ELSE 0

\* rf"\b{re.escape(oracle_type)}\b(\([^)]+\))?" at i
TypeMatchEnd(s, i, oracle_type) ==
    LET e == i + Len(oracle_type)
    IN  IF /\ WordBoundary(s, i)
           /\ LitAt(s, i, oracle_type)
           /\ WordBoundary(s, e)
        THEN LET g == ParenGroupEnd(s, e) IN IF g = 0 THEN e ELSE g
        ELSE 0

\* lambda m: pg_type + (m.group(1) or "")
TypeRepl(s, i, j, oracle_type, pg_type) == pg_type \o SubSeq(s, i + Len(oracle_type), j - 1)

\* one iteration of the loop of _convert_types
TypeSub(s, oracle_type, pg_type) ==
    ReSub(s, LAMBDA t, i : TypeMatchEnd(t, i, oracle_type),
             LAMBDA t, i, j : TypeRepl(t, i, j, oracle_type, pg_type))

\* the loop of _convert_types over the sorted keys (an empty text has nothing to rewrite; testing
\* for it also has each substitution evaluated before the next one starts)
RECURSIVE ApplyTypes(_, _, _)
ApplyTypes(s, keys, map) ==
    IF keys = <<>> \/ s = "" THEN s
    ELSE ApplyTypes(TypeSub(s, Head(keys), Lookup(map, Head(keys))), Tail(keys), map)

_convert_types(text, map) == ApplyTypes(text, sorted_types(map), map)

-----------------------------------------------------------------------------
(* Syntax Rewriter: SQLConverter._convert_oracle_syntax.                   *)

\* rf"\b{word}\b" at i
WordMatchEnd(s, i, word) ==
    IF WordBoundary(s, i) /\ LitAt(s, i, word) /\ WordBoundary(s, i + Len(word))
    THEN i + Len(word)
    ELSE 0

\* re.sub(rf"\b{word}\b", repl, s, flags=re.IGNORECASE)
WordSub(s, word, repl) ==
    ReSub(s, LAMBDA t, i : WordMatchEnd(t, i, word), LAMBDA t, i, j : repl)

\* r"\bNVL\s*\(" at i
NvlMatchEnd(s, i) ==
    IF WordBoundary(s, i) /\ LitAt(s, i, "NVL")
    THEN LET k == RunEnd(s, i + 3, SpaceChars)
         IN  IF k <= Len(s) /\ Char(s, k) = "(" THEN k + 1 ELSE 0
    ELSE 0

\* rf"\s+{keyword}\s+{cls}+" at i (TABLESPACE \w+, PCTFREE \d+, ...)
ClauseMatchEnd(s, i, keyword, cls) ==
    LET k1 == RunEnd(s, i, SpaceChars)
        k2 == k1 + Len(keyword)
        k3 == RunEnd(s, k2, SpaceChars)
        k4 == RunEnd(s, k3, cls)
    IN  IF k1 > i /\ LitAt(s, k1, keyword) /\ k3 > k2 /\ k4 > k3 THEN k4 ELSE 0

\* r"\s+STORAGE\s*\([^)]+\)" at i
StorageMatchEnd(s, i) ==
    LET k1 == RunEnd(s, i, SpaceChars)
        k2 == RunEnd(s, k1 + 7, SpaceChars)
    IN  IF k1 > i /\ LitAt(s, k1, "STORAGE") THEN ParenGroupEnd(s, k2) ELSE 0

\* r"\bNUMBER\((\d+),\s*(\d+)\)" at i: <<end, group 1, group 2>>, or <<0, "", "">>
DecimalMatch(s, i) ==
    LET d1 == i + 7
        e1 == RunEnd(s, d1, DigitChars)
        d2 == RunEnd(s, e1 + 1, SpaceChars)
        e2 == RunEnd(s, d2, DigitChars)
    IN  IF /\ WordBoundary(s, i) /\ LitAt(s, i, "NUMBER(")
           /\ e1 > d1
           /\ e1 <= Len(s) /\ Char(s, e1) = ","
           /\ e2 > d2
           /\ e2 <= Len(s) /\ Char(s, e2) = ")"
        THEN <<e2 + 1, SubSeq(s, d1, e1 - 1), SubSeq(s, d2, e2 - 1)>>
        ELSE <<0, "", "">>

\* re.sub(r"\bNUMBER\((\d+),\s*(\d+)\)", r"DECIMAL(\1,\2)", s)
DecimalSub(s) ==
    ReSub(s, LAMBDA t, i : DecimalMatch(t, i)[1],
             LAMBDA t, i, j : "DECIMAL(" \o DecimalMatch(t, i)[2] \o "," \o DecimalMatch(t, i)[3] \o ")")

\* a storage clause stripped entirely
ClauseStrip(s, keyword, cls) ==
    ReSub(s, LAMBDA t, i : ClauseMatchEnd(t, i, keyword, cls), LAMBDA t, i, j : "")

NvlSub(s) == ReSub(s, NvlMatchEnd, LAMBDA t, i, j : "COALESCE(")

StorageStrip(s) == ReSub(s, StorageMatchEnd, LAMBDA t, i, j : "")

\* the substitutions of _convert_oracle_syntax, in source order
OracleFunctions(s) == NvlSub(WordSub(WordSub(s, "SYSDATE", "CURRENT_DATE"), "SYSTIMESTAMP", "CURRENT_TIMESTAMP"))

OracleStorage(s) ==
    ClauseStrip(ClauseStrip(ClauseStrip(ClauseStrip(
        StorageStrip(ClauseStrip(s, "TABLESPACE", WordChars)),
        "PCTFREE", DigitChars), "PCTUSED", DigitChars), "INITRANS", DigitChars), "MAXTRANS", DigitChars)

OracleNumbers(s) ==
    WordSub(DecimalSub(WordSub(WordSub(WordSub(s,
        "NUMBER(10)", "INTEGER"), "NUMBER(19)", "BIGINT"), "NUMBER(1)", "BOOLEAN")), "NUMBER", "NUMERIC")

_convert_oracle_syntax(text) ==
    OracleNumbers(WordSub(OracleStorage(OracleFunctions(text)), "VARCHAR2", "VARCHAR"))

-----------------------------------------------------------------------------
(* Sequence Converter and Identifier Rewriter.                             *)

\* r"(\w+)\s+(?:NUMBER|INTEGER)\s+DEFAULT\s+\w+\.NEXTVAL" at i
SequenceMatchEnd(s, i) ==
    LET k1 == RunEnd(s, i, WordChars)
        k2 == RunEnd(s, k1, SpaceChars)
        k3 == IF LitAt(s, k2, "NUMBER") THEN k2 + 6
              ELSE IF LitAt(s, k2, "INTEGER") THEN k2 + 7 ELSE 0
        k4 == RunEnd(s, k3, SpaceChars)
        k5 == k4 + 7
        k6 == RunEnd(s, k5, SpaceChars)
        k7 == RunEnd(s, k6, WordChars)
    IN  IF /\ k1 > i /\ k2 > k1 /\ k3 # 0
           /\ k4 > k3 /\ LitAt(s, k4, "DEFAULT")
           /\ k6 > k5 /\ k7 > k6
           /\ LitAt(s, k7, ".NEXTVAL")
        THEN k7 + 8
        ELSE 0

\* r"\1 SERIAL"
SequenceRepl(s, i, j) == SubSeq(s, i, RunEnd(s, i, WordChars) - 1) \o " SERIAL"

_convert_sequences(text) == ReSub(text, SequenceMatchEnd, SequenceRepl)

\* the re.error that parsing the replacement template of re.sub raises, "" when it raises
\* none; the templates of the model hold no backslash, or one backslash that is followed by
\* a digit 1-9 (a reference to a group the pattern has not), by a letter that is no escape,
\* or by nothing
TemplateError(repl) ==
    LET at == {k \in 1..Len(repl) : Char(repl, k) = "\\"}
        i  == MinOf(at)
    IN  IF at = {} THEN ""
        ELSE IF i = Len(repl) THEN "bad escape (end of pattern) at position " \o ToString(i - 1)
        ELSE IF Char(repl, i + 1) \in DigitChars \ {"0"}
             THEN "invalid group reference " \o Char(repl, i + 1) \o " at position " \o ToString(i)
        ELSE IF Char(repl, i + 1) \in (LowerChars \cup UpperChars)
                    \ {"a", "b", "f", "g", "n", "r", "t", "v"}
             THEN "bad escape \\" \o Char(repl, i + 1) \o " at position " \o ToString(i - 1)
        ELSE ""

\* re.sub(re.escape(old_name), new_name, text, flags=re.IGNORECASE): the pattern without its \b anchors
ReplaceNameAnywhere(text, old_name, new_name) ==
    ReSub(text, LAMBDA t, i : IF LitAt(t, i, old_name) THEN i + Len(old_name) ELSE 0,
                LAMBDA t, i, j : new_name)

_replace_table_name(text, old_name, new_name) == WordSub(text, old_name, new_name)

\* the table argument is not used by the code
_replace_column_name(text, table, old_col, new_col) == WordSub(text, old_col, new_col)

-----------------------------------------------------------------------------
(* Cleanup: SQLConverter._clean_sql.                                       *)

\* the index of the last "\n" of s in lo..hi, or 0
LastNewline(s, lo, hi) ==
    IF \E k \in lo..hi : Char(s, k) = "\n"
    THEN MaxOf({k \in lo..hi : Char(s, k) = "\n"})
    ELSE 0

\* r"\n\s*\n\s*\n" at i: from a newline to the last newline of the whitespace run, when it holds three
BlankLinesMatchEnd(s, i) ==
    LET e == RunEnd(s, i, SpaceChars)
    IN  IF /\ i <= Len(s) /\ Char(s, i) = "\n"
           /\ Cardinality({k \in (i + 1)..(e - 1) : Char(s, k) = "\n"}) >= 2
        THEN LastNewline(s, i + 1, e - 1) + 1
        ELSE 0

\* r";\s*$" under re.MULTILINE at i: $ is the end of the text or the place before a newline
SemicolonMatchEnd(s, i) ==
    LET e == RunEnd(s, i + 1, SpaceChars)
    IN  IF i <= Len(s) /\ Char(s, i) = ";"
        THEN IF e > Len(s) THEN e ELSE LastNewline(s, i + 1, e - 1)
        ELSE 0

_clean_sql(text) ==
    strip(ReSub(ReSub(text, BlankLinesMatchEnd, LAMBDA t, i, j : "\n\n"),
                SemicolonMatchEnd, LAMBDA t, i, j : ";\n"))

-----------------------------------------------------------------------------
(* DDL Parser: SQLConverter.parse_create_table, _parse_columns,            *)
(* _extract_default.                                                       *)

\* Optional[str]: None, or a one-element sequence holding the string
None == <<>>

Some(x) == <<x>>

\* the n-th smallest element of a finite set of integers
Nth(S, n) == CHOOSE x \in S : Cardinality({y \in S : y < x}) = n - 1

\* the lookahead (?![^()]*\)) at p fails to hold when the first parenthesis at or after p is a ")"
ClosesParen(s, p) ==
    LET k == RunEndNot(s, p, {"(", ")"})
    IN  k <= Len(s) /\ Char(s, k) = ")"

\* the commas r",(?![^()]*\))" matches
SplitPoints(s) == {i \in 1..Len(s) : Char(s, i) = "," /\ ~ClosesParen(s, i + 1)}

\* re.split with its matches, one character each, at the positions cuts: the pieces between them
SplitAt(s, cuts) ==
    LET n    == Cardinality(cuts)
        lo(k) == IF k = 1 THEN 1 ELSE Nth(cuts, k - 1) + 1
        hi(k) == IF k = n + 1 THEN Len(s) ELSE Nth(cuts, k) - 1
    IN  [k \in 1..(n + 1) |-> SubSeq(s, lo(k), hi(k))]

\* re.split(r",(?![^()]*\))", s)
SplitColumns(s) == SplitAt(s, SplitPoints(s))

ConstraintKeywords == <<"PRIMARY", "FOREIGN", "UNIQUE", "CHECK", "CONSTRAINT">>

\* re.match(r"^\s*(PRIMARY|FOREIGN|UNIQUE|CHECK|CONSTRAINT)", part, re.IGNORECASE)
IsConstraint(part) ==
    \E k \in 1..Len(ConstraintKeywords) : LitAt(part, RunEnd(part, 1, SpaceChars), ConstraintKeywords[k])

\* r"\([^)]*\)" at i: the end of the group, or 0
ParenGroup0End(s, i) ==
    IF i <= Len(s) /\ Char(s, i) = "("
    THEN LET k == RunEndNot(s, i + 1, {")"}) IN IF k <= Len(s) THEN k + 1 ELSE 0
    ELSE 0

\* r"DEFAULT\s+([^,\s]+(?:\([^)]*\))?)" at i: <<end, group 1>>, or <<0, "">>
DefaultMatch(s, i) ==
    LET k1 == RunEnd(s, i + 7, SpaceChars)
        k2 == RunEndNot(s, k1, SpaceChars \cup {","})
        g  == ParenGroup0End(s, k2)
        e  == IF g = 0 THEN k2 ELSE g
    IN  IF LitAt(s, i, "DEFAULT") /\ k1 > i + 7 /\ k2 > k1
        THEN <<e, SubSeq(s, k1, e - 1)>>
        ELSE <<0, "">>

_extract_default(attrs) ==
    LET i == ReSearch(attrs, LAMBDA t, k : DefaultMatch(t, k)[1])
    IN  IF i = 0 THEN None ELSE Some(DefaultMatch(attrs, i)[2])

\* re.match(r"(\w+)\s+(\w+(?:\([^)]+\))?)\s*(.*)", part): <<matched, name, type, attrs>>
ColumnMatch(part) ==
    LET n1 == RunEnd(part, 1, WordChars)
        n2 == RunEnd(part, n1, SpaceChars)
        t1 == RunEnd(part, n2, WordChars)
        g  == ParenGroupEnd(part, t1)
        t2 == IF g = 0 THEN t1 ELSE g
        a1 == RunEnd(part, t2, SpaceChars)
        a2 == RunEndNot(part, a1, {"\n"})
    IN  IF n1 > 1 /\ n2 > n1 /\ t1 > n2
        THEN <<TRUE, SubSeq(part, 1, n1 - 1), SubSeq(part, n2, t2 - 1), SubSeq(part, a1, a2 - 1)>>
        ELSE <<FALSE, "", "", "">>

\* the dict appended to columns for a matched fragment
Column(m) ==
    [name        |-> m[2],
     type        |-> m[3],
     nullable    |-> ~Contains(upper(m[4]), "NOT NULL"),
     primary_key |-> Contains(upper(m[4]), "PRIMARY KEY"),
     unique      |-> Contains(upper(m[4]), "UNIQUE"),
     default     |-> _extract_default(m[4])]

\* the test without the shape: the fragment is not empty and not a constraint
IsFragment(raw) ==
    LET part == strip(raw)
    IN  part # "" /\ ~IsConstraint(part)

\* the fragment yields a column: it is not empty, not a constraint, and has the column shape
IsColumnPart(raw) ==
    LET part == strip(raw)
    IN  part # "" /\ ~IsConstraint(part) /\ ColumnMatch(part)[1]

_parse_columns(columns_str) ==
    With(SelectSeq(SplitColumns(columns_str), IsColumnPart),
         LAMBDA kept : <<>> \o [k \in 1..Len(kept) |-> With(ColumnMatch(strip(kept[k])), Column)])

\* r"(?:IF\s+NOT\s+EXISTS\s+)?" at i: the end of the optional group when it matches, or 0
IfNotExistsEnd(s, i) ==
    LET k1 == RunEnd(s, i + 2, SpaceChars)
        k2 == RunEnd(s, k1 + 3, SpaceChars)
        k3 == RunEnd(s, k2 + 6, SpaceChars)
    IN  IF /\ LitAt(s, i, "IF") /\ k1 > i + 2
           /\ LitAt(s, k1, "NOT") /\ k2 > k1 + 3
           /\ LitAt(s, k2, "EXISTS") /\ k3 > k2 + 6
        THEN k3
        ELSE 0

\* r"(\w+)\s*\(([^;]+)\)" at i: <<end, name, body>>, or <<0, "", "">>; the body runs to the
\* last ")" before the next ";"
TableTail(s, i) ==
    LET n1 == RunEnd(s, i, WordChars)
        n2 == RunEnd(s, n1, SpaceChars)
        e  == RunEndNot(s, n2 + 1, {";"})
        closers == {k \in (n2 + 2)..(e - 1) : Char(s, k) = ")"}
    IN  IF n1 > i /\ n2 <= Len(s) /\ Char(s, n2) = "(" /\ closers # {}
        THEN <<MaxOf(closers) + 1, SubSeq(s, i, n1 - 1), SubSeq(s, n2 + 1, MaxOf(closers) - 1)>>
        ELSE <<0, "", "">>

\* r"CREATE\s+TABLE\s+(?:IF\s+NOT\s+EXISTS\s+)?(\w+)\s*\(([^;]+)\)" at i: <<end, name, body>>
CreateTableMatch(s, i) ==
    LET k1 == RunEnd(s, i + 6, SpaceChars)
        k2 == RunEnd(s, k1 + 5, SpaceChars)
        k3 == IfNotExistsEnd(s, k2)
    IN  IF LitAt(s, i, "CREATE") /\ k1 > i + 6 /\ LitAt(s, k1, "TABLE") /\ k2 > k1 + 5
        THEN IF k3 # 0 /\ TableTail(s, k3)[1] # 0 THEN TableTail(s, k3) ELSE TableTail(s, k2)
        ELSE <<0, "", "">>

\* r"PRIMARY\s+KEY\s*\((\w+)\)" at i: <<end, column>>
PrimaryKeyMatch(s, i) ==
    LET k1 == RunEnd(s, i + 7, SpaceChars)
        k2 == RunEnd(s, k1 + 3, SpaceChars)
        k3 == RunEnd(s, k2 + 1, WordChars)
    IN  IF /\ LitAt(s, i, "PRIMARY") /\ k1 > i + 7 /\ LitAt(s, k1, "KEY")
           /\ LitAt(s, k2, "(") /\ k3 > k2 + 1 /\ LitAt(s, k3, ")")
        THEN <<k3 + 1, SubSeq(s, k2 + 1, k3 - 1)>>
        ELSE <<0, "">>

\* r"FOREIGN\s+KEY\s*\((\w+)\)\s*REFERENCES\s+(\w+)\s*\((\w+)\)" at i: <<end, column, table, column>>
ForeignKeyMatch(s, i) ==
    LET k1 == RunEnd(s, i + 7, SpaceChars)
        k2 == RunEnd(s, k1 + 3, SpaceChars)
        k3 == RunEnd(s, k2 + 1, WordChars)
        k4 == RunEnd(s, k3 + 1, SpaceChars)
        k5 == RunEnd(s, k4 + 10, SpaceChars)
        k6 == RunEnd(s, k5, WordChars)
        k7 == RunEnd(s, k6, SpaceChars)
        k8 == RunEnd(s, k7 + 1, WordChars)
    IN  IF /\ LitAt(s, i, "FOREIGN") /\ k1 > i + 7 /\ LitAt(s, k1, "KEY")
           /\ LitAt(s, k2, "(") /\ k3 > k2 + 1 /\ LitAt(s, k3, ")")
           /\ LitAt(s, k4, "REFERENCES") /\ k5 > k4 + 10 /\ k6 > k5
           /\ LitAt(s, k7, "(") /\ k8 > k7 + 1 /\ LitAt(s, k8, ")")
        THEN <<k8 + 1, SubSeq(s, k2 + 1, k3 - 1), SubSeq(s, k5, k6 - 1), SubSeq(s, k7 + 1, k8 - 1)>>
        ELSE <<0, "", "", "">>

\* re.finditer(pattern, s): the starts of the successive non-overlapping matches
FindIter(s, MatchEnd(_, _)) ==
    LET RECURSIVE scan(_)
        scan(p) ==
            LET i == NextMatch(s, p, MatchEnd)
            IN  IF i = 0 THEN <<>> ELSE <<i>> \o scan(MatchEnd(s, i))
    IN  scan(1)

\* table.primary_key: the table-level constraint, else the first column flagged inline, else ""
PrimaryKeyOf(columns_str, columns) ==
    LET i == ReSearch(columns_str, LAMBDA t, k : PrimaryKeyMatch(t, k)[1])
        flagged == {k \in 1..Len(columns) : columns[k].primary_key}
    IN  IF i # 0 THEN PrimaryKeyMatch(columns_str, i)[2]
        ELSE IF flagged # {} THEN columns[MinOf(flagged)].name
        ELSE ""

\* re.search in place of re.finditer: the record of the first constraint only
FirstForeignKeyOf(columns_str) ==
    LET i == ReSearch(columns_str, LAMBDA t, k : ForeignKeyMatch(t, k)[1])
    IN  IF i = 0 THEN <<>>
        ELSE <<[column            |-> ForeignKeyMatch(columns_str, i)[2],
                references_table  |-> ForeignKeyMatch(columns_str, i)[3],
                references_column |-> ForeignKeyMatch(columns_str, i)[4]]>>

\* table.foreign_keys: one record per match of re.finditer, in source order
ForeignKeysOf(columns_str) ==
    LET at == FindIter(columns_str, LAMBDA t, k : ForeignKeyMatch(t, k)[1])
    IN  [k \in 1..Len(at) |->
            [column            |-> ForeignKeyMatch(columns_str, at[k])[2],
             references_table  |-> ForeignKeyMatch(columns_str, at[k])[3],
             references_column |-> ForeignKeyMatch(columns_str, at[k])[4]]]

\* the SQLTable built from the match at i
SQLTable(s, i) ==
    With(CreateTableMatch(s, i),
         LAMBDA m : [name         |-> m[2],
                     columns      |-> _parse_columns(m[3]),
                     primary_key  |-> With(_parse_columns(m[3]), LAMBDA columns : PrimaryKeyOf(m[3], columns)),
                     foreign_keys |-> ForeignKeysOf(m[3]),
                     original_sql |-> SubSeq(s, i, m[1] - 1)])

\* the starts of the CREATE TABLE statements found
TableMatches(s) == FindIter(s, LAMBDA t, k : CreateTableMatch(t, k)[1])

parse_create_table(s) ==
    With(TableMatches(s), LAMBDA matches : <<>> \o [k \in 1..Len(matches) |-> SQLTable(s, matches[k])])

-----------------------------------------------------------------------------
(* Procedure Transpiler: StoredProcedureConverter.                         *)

\* str.replace(old, new): every non-overlapping occurrence, left to right, case-sensitive
replace(s, old, new) ==
    IF old = "" THEN MapChars(s, LAMBDA c : new \o c) \o new
    ELSE ReSub(s, LAMBDA t, i : IF i + Len(old) - 1 <= Len(t) /\ SubSeq(t, i, i + Len(old) - 1) = old
                                THEN i + Len(old) ELSE 0,
                  LAMBDA t, i, j : new)

\* sep.join(items)
RECURSIVE join(_, _)
join(sep, items) ==
    IF items = <<>> THEN ""
    ELSE IF Len(items) = 1 THEN items[1]
    ELSE items[1] \o sep \o join(sep, Tail(items))

\* for old, new in entity_mapping.items(): name = name.replace(old.lower(), new.lower())
RECURSIVE ApplyEntityMapping(_, _)
ApplyEntityMapping(name, mapping) ==
    IF mapping = <<>> THEN name
    ELSE ApplyEntityMapping(replace(name, lower(mapping[1][1]), lower(mapping[1][2])), Tail(mapping))

\* re.sub(r"([A-Z])", r"_\1", name)
SnakeCase(name) == MapChars(name, LAMBDA c : IF c \in UpperChars THEN "_" \o c ELSE c)

_convert_procedure_name(proc_name, mapping) ==
    LET name == IF startswith(upper(proc_name), "SP_") THEN From(proc_name, 4) ELSE proc_name
    IN  ApplyEntityMapping(lstrip(lower(SnakeCase(name)), {"_"}), mapping)

_oracle_type_to_python(oracle_type) ==
    LET type_upper == upper(oracle_type)
    IN  IF Contains(type_upper, "NUMBER") \/ Contains(type_upper, "INT") THEN "int"
        ELSE IF Contains(type_upper, "VARCHAR") \/ Contains(type_upper, "CHAR") THEN "str"
        ELSE IF Contains(type_upper, "DATE") \/ Contains(type_upper, "TIMESTAMP") THEN "datetime"
        ELSE IF Contains(type_upper, "CLOB") \/ Contains(type_upper, "BLOB") THEN "bytes"
        ELSE IF Contains(type_upper, "CURSOR") THEN "list[dict[str, Any]]"
        ELSE IF Contains(type_upper, "BOOLEAN") THEN "bool"
        ELSE "Any"

\* r"\s*(\w+(?:\([^)]+\))?)" at e: <<end, start of the type>>, or <<0, 0>>
ParamTypeMatch(part, e) ==
    LET k  == RunEnd(part, e, SpaceChars)
        t1 == RunEnd(part, k, WordChars)
        g  == ParenGroupEnd(part, t1)
    IN  IF t1 > k THEN <<IF g = 0 THEN t1 ELSE g, k>> ELSE <<0, 0>>

\* re.match(r"(\w+)\s+(IN(?:\s+OUT)?|OUT)?\s*(\w+(?:\([^)]+\))?)", part, re.IGNORECASE):
\* <<matched, name, group 2 (None when it did not take part), type>>.  The alternatives of the
\* optional direction are tried in the order of the pattern (IN OUT, IN, OUT, nothing); the
\* first one after which a type can still be matched is taken.
ParamMatch(part) ==
    LET n1 == RunEnd(part, 1, WordChars)
        n2 == RunEnd(part, n1, SpaceChars)
        o1 == RunEnd(part, n2 + 2, SpaceChars)
        ends == << IF LitAt(part, n2, "IN") /\ o1 > n2 + 2 /\ LitAt(part, o1, "OUT") THEN o1 + 3 ELSE 0,
                   IF LitAt(part, n2, "IN") THEN n2 + 2 ELSE 0,
                   IF LitAt(part, n2, "OUT") THEN n2 + 3 ELSE 0,
                   n2 >>
        usable == {k \in 1..4 : ends[k] # 0 /\ ParamTypeMatch(part, ends[k])[1] # 0}
        e  == ends[MinOf(usable)]
        ty == ParamTypeMatch(part, e)
    IN  IF n1 > 1 /\ n2 > n1 /\ usable # {}
        THEN <<TRUE, SubSeq(part, 1, n1 - 1),
               IF MinOf(usable) = 4 THEN None ELSE Some(SubSeq(part, n2, e - 1)),
               SubSeq(part, ty[2], ty[1] - 1)>>
        ELSE <<FALSE, "", None, "">>

\* the dict appended to params for a matched fragment
Parameter(m, mapping) ==
    LET py_name == lower(m[2])
    IN  [name        |-> ApplyEntityMapping(IF startswith(py_name, "p_") THEN From(py_name, 3) ELSE py_name,
                                            mapping),
         direction   |-> replace(upper(IF m[3] = None THEN "IN" ELSE m[3][1]), " ", ""),
         oracle_type |-> m[4],
         python_type |-> _oracle_type_to_python(m[4])]

IsParameterPart(raw) == strip(raw) # "" /\ ParamMatch(strip(raw))[1]

_parse_parameters(params_str, mapping) ==
    IF strip(params_str) = "" THEN <<>>
    ELSE With(SelectSeq(SplitColumns(params_str), IsParameterPart),
              LAMBDA kept :
                  <<>> \o [k \in 1..Len(kept) |->
                              With(ParamMatch(strip(kept[k])), LAMBDA m : Parameter(m, mapping))])

ParamLine(p) == "            " \o p.name \o ": " \o p.python_type

_generate_docstring(proc_name, in_params, out_params) ==
    LET args == IF in_params = <<>> THEN <<>>
                ELSE <<"Args:">> \o [k \in 1..Len(in_params) |-> ParamLine(in_params[k])]
        rets == IF out_params = <<>> THEN <<>>
                ELSE <<"        Returns:",
                       IF Len(out_params) = 1 THEN "            " \o out_params[1].python_type
                       ELSE "            dict with: "
                            \o join(", ", [k \in 1..Len(out_params) |-> out_params[k].name])>>
    IN  IF args \o rets = <<>> THEN "Converted from " \o proc_name \o "."
        ELSE join("\n", args \o rets)

\* r"PROCEDURE\s+(\w+)\s*\(([^)]*)\)" at i: <<matched, name, parameter text>>
ProcedureTail(s, i) ==
    LET k1 == RunEnd(s, i + 9, SpaceChars)
        k2 == RunEnd(s, k1, WordChars)
        k3 == RunEnd(s, k2, SpaceChars)
        k4 == RunEndNot(s, k3 + 1, {")"})
    IN  IF /\ LitAt(s, i, "PROCEDURE") /\ k1 > i + 9 /\ k2 > k1
           /\ LitAt(s, k3, "(") /\ k4 <= Len(s)
        THEN <<TRUE, SubSeq(s, k1, k2 - 1), SubSeq(s, k3 + 1, k4 - 1)>>
        ELSE <<FALSE, "", "">>

\* the pattern without its anchor and its CREATE [OR REPLACE]: PROCEDURE name(params) anywhere
ProcedureSearch(s) ==
    LET i == ReSearch(s, LAMBDA t, k : IF ProcedureTail(t, k)[1] THEN k + 1 ELSE 0)
    IN  IF i = 0 THEN <<FALSE, "", "">> ELSE ProcedureTail(s, i)

\* re.match(r"CREATE\s+(?:OR\s+REPLACE\s+)?PROCEDURE\s+(\w+)\s*\(([^)]*)\)", s, re.IGNORECASE)
ProcedureMatch(s) ==
    LET k1 == RunEnd(s, 7, SpaceChars)
        r1 == RunEnd(s, k1 + 2, SpaceChars)
        r2 == RunEnd(s, r1 + 7, SpaceChars)
    IN  IF LitAt(s, 1, "CREATE") /\ k1 > 7
        THEN IF /\ LitAt(s, k1, "OR") /\ r1 > k1 + 2 /\ LitAt(s, r1, "REPLACE") /\ r2 > r1 + 7
                /\ ProcedureTail(s, r2)[1]
             THEN ProcedureTail(s, r2)
             ELSE ProcedureTail(s, k1)
        ELSE <<FALSE, "", "">>

\* the locals of convert_to_python once the signature matched
Signature(m, mapping, params) ==
    LET ins  == SelectSeq(params, LAMBDA q : q.direction \in {"IN", "INOUT"})
        outs == SelectSeq(params, LAMBDA q : q.direction \in {"OUT", "INOUT"})
    IN  [matched     |-> m[1],
         proc_name   |-> m[2],
         method_name |-> _convert_procedure_name(m[2], mapping),
         params      |-> params,
         in_params   |-> ins,
         out_params  |-> outs,
         param_str   |-> join(", ", [k \in 1..Len(ins) |-> ins[k].name \o ": " \o ins[k].python_type]),
         return_type |-> IF Len(outs) = 0 THEN "None"
                         ELSE IF Len(outs) = 1 THEN outs[1].python_type
                         ELSE "dict[str, Any]"]

ProcedureFrame(procedure_sql_, mapping) ==
    With(ProcedureMatch(procedure_sql_),
         LAMBDA m : With(_parse_parameters(m[3], mapping), LAMBDA params : Signature(m, mapping, params)))

\* the lines of the generated method
StubLines(f) ==
    <<"    async def " \o f.method_name \o "(", "        self,">>
    \o (IF f.param_str # "" THEN <<"        " \o f.param_str \o ",">> ELSE <<>>)
    \o <<"    ) -> " \o f.return_type \o ":",
         "        \"\"\"",
         "        " \o _generate_docstring(f.proc_name, f.in_params, f.out_params),
         "        Replaces Oracle " \o f.proc_name \o " procedure.",
         "        \"\"\"",
         "        # TODO: Implement business logic",
         "        pass">>

\* what convert_to_python returns once its locals are f
Stub(f) == IF ~f.matched THEN "# Could not parse procedure" ELSE join("\n", <<>> \o StubLines(f))

convert_to_python(procedure_sql_, mapping) == With(ProcedureFrame(procedure_sql_, mapping), Stub)

-----------------------------------------------------------------------------
(* The calls.  Every specification below starts a call with its arguments  *)
(* drawn from a set of inputs and runs it to its return; the variables a   *)
(* call does not use keep their idle values.                               *)

\* ConversionResult()
ConversionResult ==
    [success |-> FALSE, converted_sql |-> "", transformations |-> <<>>,
     tables_converted |-> <<>>, warnings |-> <<>>, errors |-> <<>>]

\* SQLTransformation(original_table=..., new_table=..., dialect_conversion=...)
SQLTransformation(old_table, new_table, dialect) ==
    [original_table |-> old_table, new_table |-> new_table, column_mappings |-> <<>>,
     type_conversions |-> <<>>, dialect_conversion |-> dialect]

\* d[k] = v on a dict kept as a sequence of pairs
DictSet(d, k, v) ==
    IF HasKey(d, k) THEN [i \in 1..Len(d) |-> IF d[i][1] = k THEN <<k, v>> ELSE d[i]]
    ELSE Append(d, <<k, v>>)

\* f"{source_dialect}_to_{target_dialect}"
TypeKey(source, target) == source \o "_to_" \o target

-----------------------------------------------------------------------------
(* convert_schema, stage by stage.                                         *)

\* column definitions with an Oracle type, as they occur in a schema
TypedColumns ==
    {"x " \o t \o e : t \in {"NUMBER(10)", "NUMBER(10,2)", "NUMBER", "NUMBER(19)", "VARCHAR2(30)"},
                      e \in {"", " NOT NULL", ", y DATE", ")"}}

\* the sequence-backed identity idiom
SequenceColumns ==
    {c \o " " \o t \o " DEFAULT " \o q \o ".NEXTVAL" \o e :
        c \in {"id", "order_id"}, t \in {"NUMBER", "INTEGER"}, q \in {"order_seq", "s"},
        e \in {"", ", total NUMBER"}}

\* statements naming tables
NamedTables ==
    {"SELECT * FROM users WHERE users.id = 1",
     "SELECT * FROM USERS u, Users v",
     "INSERT INTO users_archive SELECT id FROM users;",
     "DROP TABLE all_users;\n\n\nDROP TABLE orders;  \nDROP TABLE users2",
     "CREATE TABLE users (id NUMBER(10), orders_id NUMBER) TABLESPACE users",
     "SELECT NVL(o.id, 0), SYSDATE FROM orders o JOIN users ON o.id = users.id",
     "UPDATE orders SET id = 1;\nUPDATE products SET id = 2;"}

SchemaTexts == TypedColumns \cup SequenceColumns \cup NamedTables

TableMappings ==
    {<<>>,
     << <<"users", "products">> >>,
     << <<"users", "products">>, <<"orders", "items">> >>,
     << <<"users", "orders">>, <<"orders", "items">> >>,
     << <<"Orders", "users">>, <<"USERS", "Orders">> >>}

ColumnMappings ==
    {<<>>,
     << <<"users", "id", "user_id">> >>,
     << <<"orders", "id", "order_id">>, <<"users", "total", "amount">> >>}

Dialects == {<<"oracle", "postgresql">>, <<"mysql", "postgresql">>, <<"oracle", "mysql">>}

Init ==
    /\ pc = "start"
    /\ original_sql \in SchemaTexts
    /\ table_mappings \in TableMappings
    /\ column_mappings \in ColumnMappings
    /\ \E d \in Dialects : source_dialect = d[1] /\ target_dialect = d[2]
    /\ converted = "" /\ cursor = 0 /\ result = ConversionResult
    /\ sql = "" /\ procedure_sql = "" /\ entity_mapping = <<>> /\ type_key = ""
    /\ reconverted = "" /\ tables = <<>> /\ parts = <<>> /\ frame = <<>> /\ stub = "" /\ defs = <<>>
    /\ Idle

NotSchema == <<sql, procedure_sql, entity_mapping, reconverted, tables, parts, frame, stub, defs, Elsewhere>>

Arguments == <<original_sql, table_mappings, column_mappings, source_dialect, target_dialect>>

\* Step 1: convert data types
ConvertTypes ==
    /\ pc = "start"
    /\ type_key' = TypeKey(source_dialect, target_dialect)
    /\ converted' = IF HasKey(_type_mappings, type_key')
                    THEN _convert_types(original_sql, Lookup(_type_mappings, type_key'))
                    ELSE original_sql
    /\ pc' = "syntax"
    /\ UNCHANGED <<Arguments, NotSchema, cursor, result>>

\* a step 2 that rewrites the input text instead of the output of step 1
RewriteOriginal ==
    /\ pc = "syntax"
    /\ converted' = IF source_dialect = "oracle" THEN _convert_oracle_syntax(original_sql) ELSE converted
    /\ pc' = "tables"
    /\ cursor' = 1
    /\ UNCHANGED <<Arguments, NotSchema, type_key, result>>

\* Step 2: convert Oracle-specific syntax
ConvertOracleSyntax ==
    /\ pc = "syntax"
    /\ converted' = IF source_dialect = "oracle" THEN _convert_oracle_syntax(converted) ELSE converted
    /\ pc' = "tables"
    /\ cursor' = 1
    /\ UNCHANGED <<Arguments, NotSchema, type_key, result>>

\* Step 3: one iteration of the loop over table_mappings
RenameTable ==
    /\ pc = "tables"
    /\ cursor <= Len(table_mappings)
    /\ TemplateError(table_mappings[cursor][2]) = ""
    /\ LET old_table == table_mappings[cursor][1]
           new_table == table_mappings[cursor][2]
       IN  /\ converted' = _replace_table_name(converted, old_table, new_table)
           /\ result' = [result EXCEPT
                  !.transformations = Append(@, SQLTransformation(old_table, new_table, type_key)),
                  !.tables_converted = Append(@, old_table \o " -> " \o new_table)]
    /\ cursor' = cursor + 1
    /\ UNCHANGED <<Arguments, NotSchema, type_key, pc>>

TablesRenamed ==
    /\ pc = "tables"
    /\ cursor > Len(table_mappings)
    /\ pc' = "columns"
    /\ cursor' = 1
    /\ UNCHANGED <<Arguments, NotSchema, type_key, converted, result>>

\* Step 4: one iteration of the loops over column_mappings
RenameColumn ==
    /\ pc = "columns"
    /\ cursor <= Len(column_mappings)
    /\ TemplateError(column_mappings[cursor][3]) = ""
    /\ LET table   == column_mappings[cursor][1]
           old_col == column_mappings[cursor][2]
           new_col == column_mappings[cursor][3]
       IN  /\ converted' = _replace_column_name(converted, table, old_col, new_col)
           /\ result' = [result EXCEPT !.transformations =
                  [i \in 1..Len(@) |->
                      IF @[i].original_table = table
                      THEN [@[i] EXCEPT !.column_mappings = DictSet(@, old_col, new_col)]
                      ELSE @[i]]]
    /\ cursor' = cursor + 1
    /\ UNCHANGED <<Arguments, NotSchema, type_key, pc>>

ColumnsRenamed ==
    /\ pc = "columns"
    /\ cursor > Len(column_mappings)
    /\ pc' = "sequences"
    /\ UNCHANGED <<Arguments, NotSchema, type_key, converted, cursor, result>>

\* a gate that looks at the source dialect only
FromOracle == source_dialect = "oracle"

\* source_dialect == "oracle" and target_dialect == "postgresql"
OracleToPostgres == source_dialect = "oracle" /\ target_dialect = "postgresql"

\* Step 5: convert sequence/identity syntax
ConvertSequences ==
    /\ pc = "sequences"
    /\ converted' = IF OracleToPostgres
                    THEN _convert_sequences(converted)
                    ELSE converted
    /\ pc' = "clean"
    /\ UNCHANGED <<Arguments, NotSchema, type_key, cursor, result>>

\* Step 6: clean up, and return the result
CleanAndReturn ==
    /\ pc = "clean"
    /\ converted' = _clean_sql(converted)
    /\ result' = [result EXCEPT !.success = TRUE, !.converted_sql = converted']
    /\ pc' = "done"
    /\ UNCHANGED <<Arguments, NotSchema, type_key, cursor>>

Next ==
    \/ ConvertTypes
    \/ ConvertOracleSyntax
    \/ RenameTable
    \/ TablesRenamed
    \/ RenameColumn
    \/ ColumnsRenamed
    \/ ConvertSequences
    \/ CleanAndReturn

Spec == Init /\ [][Next]_vars

-----------------------------------------------------------------------------
(* convert_schema called with replacement names that re.sub rejects: the   *)
(* except clause of the orchestrator.                                      *)

\* an except clause that drops the exception
FailureSwallowed(r, e) == r

\* an except clause that also hands out the text converted so far
FailurePartial(r, e) ==
    [r EXCEPT !.errors = Append(@, "Conversion failed: " \o e), !.converted_sql = converted]

\* except Exception as e: result.errors.append(f"Conversion failed: {str(e)}")
Failure(r, e) == [r EXCEPT !.errors = Append(@, "Conversion failed: " \o e)]

\* the re.sub of step 3 or step 4 raises: the except clause runs and the result is returned
ConversionFailed ==
    /\ \/ pc = "tables" /\ cursor <= Len(table_mappings)
             /\ TemplateError(table_mappings[cursor][2]) # ""
             /\ result' = Failure(result, TemplateError(table_mappings[cursor][2]))
       \/ pc = "columns" /\ cursor <= Len(column_mappings)
             /\ TemplateError(column_mappings[cursor][3]) # ""
             /\ result' = Failure(result, TemplateError(column_mappings[cursor][3]))
    /\ pc' = "done"
    /\ UNCHANGED <<Arguments, NotSchema, type_key, converted, cursor>>

FaultyTableMappings ==
    {<< <<"users", "products">>, <<"orders", "items\\1">> >>,
     << <<"nomatch", "x\\q">> >>}

FaultyColumnMappings ==
    {<< <<"users", "id", "user_id">>, <<"users", "total", "amount\\1">> >>,
     << <<"orders", "id", "\\q">> >>}

\* statements with type and function words that no table and no rule knows
UnmappedTexts ==
    {"CREATE TABLE shapes (area GEOMETRY, tag ANYDATA(20) NOT NULL, created DATE)",
     "SELECT DECODE(status, 1, 'a'), UPDATED FROM users_archive"}

InitFailure ==
    /\ pc = "start"
    /\ original_sql \in NamedTables \cup UnmappedTexts
    /\ table_mappings \in TableMappings \cup FaultyTableMappings
    /\ column_mappings \in ColumnMappings \cup FaultyColumnMappings
    /\ \E d \in Dialects : source_dialect = d[1] /\ target_dialect = d[2]
    /\ converted = "" /\ cursor = 0 /\ result = ConversionResult
    /\ sql = "" /\ procedure_sql = "" /\ entity_mapping = <<>> /\ type_key = ""
    /\ reconverted = "" /\ tables = <<>> /\ parts = <<>> /\ frame = <<>> /\ stub = "" /\ defs = <<>>
    /\ Idle

NextFailure == Next \/ ConversionFailed

SpecFailure == InitFailure /\ [][NextFailure]_vars

\* some replacement name of the call is a template that re.sub rejects
Faulty ==
    \/ \E i \in 1..Len(table_mappings) : TemplateError(table_mappings[i][2]) # ""
    \/ \E i \in 1..Len(column_mappings) : TemplateError(column_mappings[i][3]) # ""

\* C15: an exception raised in a rewrite stage does not leave convert_schema: a call whose
\* stage raises returns a ConversionResult with success False and one entry
\* "Conversion failed: ..." appended to errors, a call whose stages raise nothing returns
\* success True; and in every returned ConversionResult success is True if and only if errors
\* is empty.
C15_ConversionFailure ==
    pc = "done" =>
        /\ result.success <=> result.errors = <<>>
        /\ Faulty <=> ~result.success
        /\ ~result.success =>
              /\ Len(result.errors) = 1
              /\ startswith(result.errors[1], "Conversion failed: ")

\* the second table name is rejected after the first was applied: one error, the first
\* transformation kept
C15_Witness ==
    /\ pc = "done"
    /\ table_mappings = << <<"users", "products">>, <<"orders", "items\\1">> >>
    /\ ~result.success
    /\ result.errors = <<"Conversion failed: invalid group reference 1 at position 6">>
    /\ Len(result.transformations) = 1

-----------------------------------------------------------------------------
(* convert_oracle_to_postgres: convert_schema from oracle to postgresql,   *)
(* then the result handed out as a pair or turned into a ValueError.       *)

\* repr(s) of a str: in single quotes, or in double quotes when it holds single quotes only
repr(s) ==
    IF Contains(s, "'") /\ ~Contains(s, "\"")
    THEN "\"" \o replace(s, "\\", "\\\\") \o "\""
    ELSE "'" \o replace(replace(s, "\\", "\\\\"), "'", "\\'") \o "'"

\* str(items) of a list of str
ListStr(items) == "[" \o join(", ", [k \in 1..Len(items) |-> repr(items[k])]) \o "]"

\* ValueError(message)
ValueError(message) == [exception |-> "ValueError", message |-> message]

InitConvenience ==
    /\ pc = "start"
    /\ original_sql \in NamedTables
    /\ table_mappings \in TableMappings \cup FaultyTableMappings
    /\ column_mappings \in ColumnMappings \cup FaultyColumnMappings
    /\ source_dialect = "oracle" /\ target_dialect = "postgresql"
    /\ converted = "" /\ cursor = 0 /\ result = ConversionResult
    /\ sql = "" /\ procedure_sql = "" /\ entity_mapping = <<>> /\ type_key = ""
    /\ reconverted = "" /\ tables = <<>> /\ parts = <<>> /\ frame = <<>> /\ stub = "" /\ defs = <<>>
    /\ Idle

\* if not result.success: raise ValueError(...); return result.converted_sql, result.transformations
\* frame holds what leaves the function: the exception raised or the pair returned
ReturnOrRaise ==
    /\ pc = "done"
    /\ IF ~result.success
       THEN /\ frame' = ValueError("Conversion failed: " \o ListStr(result.errors))
            /\ pc' = "raised"
       ELSE /\ frame' = <<result.converted_sql, result.transformations>>
            /\ pc' = "returned"
    /\ UNCHANGED <<Arguments, type_key, converted, cursor, result, sql, procedure_sql,
                   entity_mapping, reconverted, tables, parts, stub, defs, Elsewhere>>

NextConvenience == NextFailure \/ ReturnOrRaise

SpecConvenience == InitConvenience /\ [][NextConvenience]_vars

\* the table renames processed before the call failed: those before the first rejected
\* table name, or all of them when a column name is the one rejected
RenamesBeforeFailure ==
    LET bad == {k \in 1..Len(table_mappings) : TemplateError(table_mappings[k][2]) # ""}
    IN  IF bad = {} THEN Len(table_mappings) ELSE MinOf(bad) - 1

\* C30: converted_sql is non-empty only if success is True; when a stage raises,
\* converted_sql stays "" while transformations and tables_converted keep the entries of the
\* table renames processed before the failure; and convert_oracle_to_postgres raises
\* ValueError instead of returning whenever success is False.
C30_NoTextOnFailure ==
    /\ result.converted_sql # "" => result.success
    /\ (pc \in {"done", "raised", "returned"} /\ ~result.success) =>
          /\ result.converted_sql = ""
          /\ Len(result.transformations) = RenamesBeforeFailure
          /\ Len(result.tables_converted) = RenamesBeforeFailure
          /\ \A k \in 1..RenamesBeforeFailure :
                 /\ result.transformations[k].original_table = table_mappings[k][1]
                 /\ result.transformations[k].new_table = table_mappings[k][2]
                 /\ result.tables_converted[k] = table_mappings[k][1] \o " -> " \o table_mappings[k][2]
    /\ pc = "raised" =>
          /\ ~result.success
          /\ frame.exception = "ValueError"
    /\ pc = "returned" =>
          /\ result.success
          /\ frame = <<result.converted_sql, result.transformations>>

\* a call that fails on its second table name raises ValueError; the result it drops holds
\* no text and the first rename
C30_Witness ==
    /\ pc = "raised"
    /\ table_mappings = << <<"users", "products">>, <<"orders", "items\\1">> >>
    /\ frame = ValueError("Conversion failed: ['Conversion failed: invalid group reference 1 at position 6']")
    /\ result.converted_sql = "" /\ converted # ""
    /\ result.tables_converted = <<"users -> products">>

-----------------------------------------------------------------------------
(* Properties of convert_schema.                                           *)

\* the text after a prefix, when the text starts with it
After(s, p) == From(s, Len(p) + 1)

\* s starts with the type t and t ends there: no qualifier follows it
StartsWithType(s, t) ==
    /\ startswith(s, t)
    /\ After(s, t) = "" \/ Char(After(s, t), 1) \in {" ", ",", ")"}

\* C1: under oracle -> postgresql, a column typed NUMBER(10) comes out INTEGER, one typed
\* NUMBER(10,2) comes out DECIMAL(10,2) and one typed bare NUMBER comes out NUMERIC, the type
\* being followed by whitespace, a comma, ")" or the end of the text: the generic NUMBER rule
\* does not fire on the qualified forms.
C1_NumberPrecedence ==
    (pc = "done" /\ OracleToPostgres) =>
        \A e \in {"", " NOT NULL", ", y DATE", ")"} :
            /\ original_sql = "x NUMBER(10)" \o e
                  => StartsWithType(result.converted_sql, "x INTEGER")
            /\ original_sql = "x NUMBER(10,2)" \o e
                  => StartsWithType(result.converted_sql, "x DECIMAL(10,2)")
            /\ original_sql = "x NUMBER" \o e
                  => StartsWithType(result.converted_sql, "x NUMERIC")

\* C7: under oracle -> postgresql, a column declared "<column> NUMBER DEFAULT <sequence>.NEXTVAL"
\* or "<column> INTEGER DEFAULT <sequence>.NEXTVAL" is a SERIAL column of converted_sql and no
\* NEXTVAL default is left.
C7_SequenceToSerial ==
    (pc = "done" /\ OracleToPostgres /\ original_sql \in SequenceColumns) =>
        /\ Contains(result.converted_sql, " SERIAL")
        /\ ~Contains(result.converted_sql, "NEXTVAL")

\* the concatenation of piece(lo), ..., piece(hi)
ConcatPieces(lo, hi, piece(_)) ==
    LET RECURSIVE go(_, _)
        go(a, b) ==
            IF a > b THEN ""
            ELSE IF a = b THEN piece(a)
            ELSE go(a, (a + b) \div 2) \o go((a + b) \div 2 + 1, b)
    IN  go(lo, hi)

\* the identifier (maximal run of word characters) of s that covers position i, "" when there is none
IdentifierAt(s, i) ==
    IF IsWord(Char(s, i))
    THEN SubSeq(s, RunStart(s, i, WordChars), RunEnd(s, i, WordChars) - 1)
    ELSE ""

\* s with every identifier that is old_name, in any letter case, replaced by new_name,
\* and every other identifier and every other character kept
RenamedIdentifiers(s, old_name, new_name) ==
    ConcatPieces(1, Len(s),
        LAMBDA i : IF IsWord(Char(s, i)) /\ upper(IdentifierAt(s, i)) = upper(old_name)
                   THEN (IF RunStart(s, i, WordChars) = i THEN new_name ELSE "")
                   ELSE Char(s, i))

\* the number of table_mappings entries the loop of step 3 has processed
TablesProcessed ==
    IF pc \in {"start", "syntax"} THEN 0
    ELSE IF pc = "tables" THEN cursor - 1
    ELSE Len(table_mappings)

\* C8: every iteration of the table loop replaces each whole-word occurrence of old, in any
\* letter case, by new and leaves the identifiers that merely contain old alone; the result
\* holds one SQLTransformation(original_table=old, new_table=new) and one label "old -> new"
\* per processed entry, in map order; {"users": "products"} on
\* "SELECT * FROM users WHERE users.id = 1" gives "SELECT * FROM products WHERE products.id = 1"
\* with one transformation.
C8_TableRenaming ==
    /\ [][RenameTable =>
            converted' = RenamedIdentifiers(converted, table_mappings[cursor][1],
                                            table_mappings[cursor][2])]_vars
    /\ [](/\ Len(result.transformations) = TablesProcessed
          /\ Len(result.tables_converted) = TablesProcessed
          /\ \A i \in 1..TablesProcessed :
                /\ result.transformations[i].original_table = table_mappings[i][1]
                /\ result.transformations[i].new_table = table_mappings[i][2]
                /\ result.tables_converted[i] =
                       table_mappings[i][1] \o " -> " \o table_mappings[i][2])
    /\ []((/\ pc = "done"
           /\ original_sql = "SELECT * FROM users WHERE users.id = 1"
           /\ table_mappings = << <<"users", "products">> >>
           /\ column_mappings = <<>>)
          => /\ result.converted_sql = "SELECT * FROM products WHERE products.id = 1"
             /\ Len(result.transformations) = 1)

\* a conversion that renamed a table written in another letter case, next to identifiers
\* that contain the name, and one that ran the example
C8_Witness ==
    /\ pc = "done"
    /\ table_mappings = << <<"users", "products">>, <<"orders", "items">> >>
    /\ original_sql = "INSERT INTO users_archive SELECT id FROM users;"
    /\ Contains(result.converted_sql, "users_archive")
    /\ Contains(result.converted_sql, "FROM products")
    /\ Len(result.transformations) = 2

\* the words of the keys of a type-mapping table, in upper case
KeyWords(map) ==
    UNION {{upper(IdentifierAt(map[k][1], i)) : i \in 1..Len(map[k][1])} : k \in 1..Len(map)}

\* the words the rename maps of the call name, in upper case
MappedNames ==
    {upper(table_mappings[i][j]) : i \in 1..Len(table_mappings), j \in 1..2}
        \cup {upper(column_mappings[i][j]) : i \in 1..Len(column_mappings), j \in 1..3}

\* words of the input texts that no rule of the Syntax Rewriter or the Sequence Converter matches
UnmappedTokens ==
    {"GEOMETRY", "ANYDATA", "DECODE", "UPDATED", "shapes", "area", "status",
     "users_archive", "all_users", "users2"}

\* the number of identifiers of s that are the word t
Occurrences(s, t) ==
    IF ~Contains(s, t) THEN 0
    ELSE Cardinality({i \in 1..Len(s) : IsWord(Char(s, i)) /\ RunStart(s, i, WordChars) = i
                                          /\ IdentifierAt(s, i) = t})

\* C18: a word of the input that is no key of the selected type-mapping table, that no rule
\* of the Syntax Rewriter or the Sequence Converter matches and that the rename maps do not
\* name stands in converted_sql as often as in the input, unchanged; and warnings is empty
\* in every ConversionResult returned.
C18_MappingMissPassThrough ==
    pc = "done" =>
        /\ result.warnings = <<>>
        /\ result.success =>
              \A t \in UnmappedTokens :
                  (/\ Occurrences(original_sql, t) > 0
                   /\ upper(t) \notin MappedNames
                   /\ HasKey(_type_mappings, type_key)
                         => upper(t) \notin KeyWords(Lookup(_type_mappings, type_key)))
                  => Occurrences(result.converted_sql, t) = Occurrences(original_sql, t)

\* a conversion with types, a function and a word holding a type name that have no mapping
C18_Witness ==
    /\ pc = "done" /\ result.success
    /\ OracleToPostgres
    /\ original_sql = "SELECT DECODE(status, 1, 'a'), UPDATED FROM users_archive"
    /\ table_mappings = << <<"users", "products">> >>
    /\ result.converted_sql = original_sql

\* the text each stage of convert_schema is due to hand to the next one
TypesStage(text) ==
    IF TypeKey(source_dialect, target_dialect) \in {"oracle_to_postgresql", "mysql_to_postgresql"}
    THEN _convert_types(text, Lookup(_type_mappings, TypeKey(source_dialect, target_dialect)))
    ELSE text

SyntaxStage(text) == IF source_dialect = "oracle" THEN _convert_oracle_syntax(text) ELSE text

\* the first n table renames, in the order of table_mappings
RECURSIVE TablesStage(_, _)
TablesStage(text, n) ==
    IF n = 0 THEN text
    ELSE With(TablesStage(text, n - 1),
              LAMBDA t : _replace_table_name(t, table_mappings[n][1], table_mappings[n][2]))

\* the first n column renames, in the order of column_mappings
RECURSIVE ColumnsStage(_, _)
ColumnsStage(text, n) ==
    IF n = 0 THEN text
    ELSE With(ColumnsStage(text, n - 1),
              LAMBDA t : _replace_column_name(t, column_mappings[n][1], column_mappings[n][2],
                                              column_mappings[n][3]))

SequencesStage(text) ==
    IF source_dialect = "oracle" /\ target_dialect = "postgresql" THEN _convert_sequences(text) ELSE text

\* the text after the Syntax Rewriter, after all table renames and after all column renames
Rewritten == With(TypesStage(original_sql), SyntaxStage)

TablesDone == With(Rewritten, LAMBDA t : TablesStage(t, Len(table_mappings)))

ColumnsDone == With(TablesDone, LAMBDA t : ColumnsStage(t, Len(column_mappings)))

\* the text after the Sequence Converter and the cleanup
Cleaned == With(ColumnsDone, LAMBDA t : With(SequencesStage(t), _clean_sql))

\* C22: convert_schema applies Type Mapping, Syntax Rewriter, table renames, column renames,
\* Sequence Converter and cleanup in this order, each stage on the output text of the one
\* before it, and every table rename before any column rename.
C22_StageOrder ==
    /\ pc = "syntax" => converted = TypesStage(original_sql)
    /\ (pc = "columns" /\ cursor = 1) => converted = TablesDone
    /\ pc = "done" => result.converted_sql = Cleaned

\* a conversion in which the Type Mapping, the Syntax Rewriter, a table rename and a column
\* rename each changed the text they were given
C22_Witness ==
    /\ pc = "done"
    /\ TypesStage(original_sql) # original_sql
    /\ Rewritten # TypesStage(original_sql)
    /\ TablesDone # Rewritten
    /\ ColumnsDone # TablesDone
    /\ result.converted_sql = With(ColumnsDone, _clean_sql)

\* the k-th column rename changed the text it was given
ColumnApplied(k) ==
    With(TablesDone, LAMBDA t :
        With(ColumnsStage(t, k - 1), LAMBDA before :
            _replace_column_name(before, column_mappings[k][1], column_mappings[k][2],
                                 column_mappings[k][3]) # before))

\* the transformation log records old_col -> new_col for the table
ColumnRecorded(table, old_col, new_col) ==
    \E i \in 1..Len(result.transformations) :
        /\ result.transformations[i].original_table = table
        /\ HasKey(result.transformations[i].column_mappings, old_col)
        /\ Lookup(result.transformations[i].column_mappings, old_col) = new_col

\* C24: after convert_schema returns successfully, every entry (table, old_col -> new_col) of
\* column_mappings whose substitution was applied to the text is in the column_mappings of
\* an emitted SQLTransformation for that table: no column rename is applied unrecorded.
C24_ColumnRenamesRecorded ==
    (pc = "done" /\ result.success) =>
        \A k \in 1..Len(column_mappings) :
            ColumnApplied(k) =>
                ColumnRecorded(column_mappings[k][1], column_mappings[k][2], column_mappings[k][3])

\* the text names the table: one of its identifiers is the name, in any letter case
Mentions(text, name) ==
    Contains(upper(text), upper(name))
        /\ \E i \in 1..Len(text) : upper(IdentifierAt(text, i)) = upper(name)

\* C25: a column rename {T: {old_col: new_col}} renames old_col only where it belongs to
\* table T: a text that does not name T at all, such as another table's CREATE TABLE with a
\* column of the same name, is left unchanged by it.
C25_ColumnRenameScoped ==
    pc = "done" =>
        \A k \in 1..Len(column_mappings) :
            ~Mentions(original_sql, column_mappings[k][1]) => ~ColumnApplied(k)

\* the entries of table_mappings whose old name is the identifier, in any letter case
RenamesOf(identifier) ==
    {k \in 1..Len(table_mappings) : upper(table_mappings[k][1]) = upper(identifier)}

\* s with every identifier that table_mappings names replaced by its new name, all at once:
\* what a rename puts into the text is not renamed again
SimultaneousRenames(s) ==
    ConcatPieces(1, Len(s),
        LAMBDA i : IF IsWord(Char(s, i)) /\ RenamesOf(IdentifierAt(s, i)) # {}
                   THEN (IF RunStart(s, i, WordChars) = i
                         THEN table_mappings[MinOf(RenamesOf(IdentifierAt(s, i)))][2]
                         ELSE "")
                   ELSE Char(s, i))

\* C28: the table renames act as one simultaneous substitution on the identifiers of the
\* text they are given: with {A -> B, B -> C} an A becomes B and a B becomes C, whatever
\* the iteration order of the map.
C28_SimultaneousTableRenames ==
    (pc = "columns" /\ cursor = 1) => converted = With(Rewritten, SimultaneousRenames)

\* convert_schema called for dialect pairs with and without a mapping table, from Oracle
\* and from other sources
GatedDialects ==
    Dialects \cup {<<"mysql", "oracle">>, <<"postgresql", "mysql">>, <<"postgresql", "postgresql">>}

InitGating ==
    /\ pc = "start"
    /\ original_sql \in SchemaTexts
    /\ table_mappings \in {<<>>, << <<"users", "products">> >>}
    /\ column_mappings \in {<<>>, << <<"users", "id", "user_id">> >>}
    /\ \E d \in GatedDialects : source_dialect = d[1] /\ target_dialect = d[2]
    /\ converted = "" /\ cursor = 0 /\ result = ConversionResult
    /\ sql = "" /\ procedure_sql = "" /\ entity_mapping = <<>> /\ type_key = ""
    /\ reconverted = "" /\ tables = <<>> /\ parts = <<>> /\ frame = <<>> /\ stub = "" /\ defs = <<>>
    /\ Idle

SpecGating == InitGating /\ [][Next]_vars

\* the table and column renames of the call
Renamed(text) ==
    With(TablesStage(text, Len(table_mappings)), LAMBDA t : ColumnsStage(t, Len(column_mappings)))

\* the renames and the cleanup
RenamedAndCleaned(text) == With(Renamed(text), _clean_sql)

\* C23: the Syntax Rewriter runs only for an Oracle source, the Sequence Converter only for
\* oracle -> postgresql and the Type Mapping only for oracle -> postgresql and
\* mysql -> postgresql; so for a non-Oracle source without a mapping table and with empty
\* rename maps, converted_sql is the input text after the whitespace cleanup only.
C23_DialectGating ==
    pc = "done" =>
        /\ (source_dialect = "oracle" /\ target_dialect = "postgresql") =>
               result.converted_sql =
                   With(_convert_types(original_sql, ORACLE_TO_POSTGRES), LAMBDA typed :
                   With(_convert_oracle_syntax(typed), LAMBDA rewritten :
                   With(Renamed(rewritten), LAMBDA renamed :
                   With(_convert_sequences(renamed), _clean_sql))))
        /\ (source_dialect = "oracle" /\ target_dialect # "postgresql") =>
               result.converted_sql = With(_convert_oracle_syntax(original_sql), RenamedAndCleaned)
        /\ (source_dialect = "mysql" /\ target_dialect = "postgresql") =>
               result.converted_sql =
                   With(_convert_types(original_sql, MYSQL_TO_POSTGRES), RenamedAndCleaned)
        /\ (source_dialect # "oracle" /\ ~(source_dialect = "mysql" /\ target_dialect = "postgresql")) =>
               /\ result.converted_sql = RenamedAndCleaned(original_sql)
               /\ (table_mappings = <<>> /\ column_mappings = <<>>) =>
                      result.converted_sql = _clean_sql(original_sql)

\* a sequence-backed column passed through unchanged for a pair that no stage is for
C23_Witness ==
    /\ pc = "done"
    /\ source_dialect = "postgresql" /\ target_dialect = "mysql"
    /\ table_mappings = <<>> /\ column_mappings = <<>>
    /\ original_sql \in SequenceColumns
    /\ result.converted_sql = original_sql
    /\ With(_convert_oracle_syntax(original_sql), _convert_sequences) # original_sql

-----------------------------------------------------------------------------
(* _convert_types called on one type: a key of the table, in upper or      *)
(* lower case, with or without a qualifier, followed by what can follow a  *)
(* type in a column list.                                                  *)

Qualifiers == {"", "(5)", "('a','b')"}

Trailers == {"", " ", ",", ")"}

KeySet(map) == {map[i][1] : i \in 1..Len(map)}

InitTypes ==
    /\ pc = "types"
    /\ type_key \in KeySet(_type_mappings)
    /\ \E t \in KeySet(Lookup(_type_mappings, type_key)), q \in Qualifiers, e \in Trailers,
          low \in BOOLEAN :
          sql = (IF low THEN lower(t) ELSE t) \o q \o e
    /\ original_sql = "" /\ procedure_sql = "" /\ entity_mapping = <<>>
    /\ table_mappings = <<>> /\ column_mappings = <<>>
    /\ source_dialect = "" /\ target_dialect = ""
    /\ converted = "" /\ reconverted = "" /\ cursor = 0 /\ result = ConversionResult
    /\ tables = <<>> /\ parts = <<>> /\ frame = <<>> /\ stub = "" /\ defs = <<>>
    /\ Idle

\* converted = self._convert_types(converted, self._type_mappings[type_key])
MapTypes ==
    /\ pc = "types"
    /\ converted' = _convert_types(sql, Lookup(_type_mappings, type_key))
    /\ pc' = "typed"
    /\ UNCHANGED <<original_sql, sql, procedure_sql, entity_mapping, type_key, table_mappings,
                   column_mappings, source_dialect, target_dialect, reconverted, cursor, result,
                   tables, parts, frame, stub, defs, Elsewhere>>

NextTypes == MapTypes

SpecTypes == InitTypes /\ [][NextTypes]_vars

\* C2: the text that is exactly a key T of the table converts to exactly the table's value for T.
C2_KeyAloneGivesValue ==
    (pc = "typed" /\ HasKey(Lookup(_type_mappings, type_key), sql)) =>
        converted = Lookup(Lookup(_type_mappings, type_key), sql)

\* C3: a key T without a size of its own followed by a qualifier "(args)" converts to the
\* target followed by "(args)" when the target carries no size, and to the target alone when
\* the target already encodes one (ENUM and SET, whose target is VARCHAR(255)).
C3_QualifierPreservation ==
    pc = "typed" =>
        \A i \in 1..Len(Lookup(_type_mappings, type_key)), q \in Qualifiers \ {""}, e \in Trailers :
            LET T      == Lookup(_type_mappings, type_key)[i][1]
                target == Lookup(_type_mappings, type_key)[i][2]
            IN  (~Contains(T, "(") /\ sql = T \o q \o e) =>
                    converted = (IF Contains(target, "(") THEN target ELSE target \o q) \o e

-----------------------------------------------------------------------------
(* _convert_oracle_syntax run over a text and then over its own output.    *)
(* The texts are made of the constructs the rewriter looks for.            *)

MaxSegments == 3

Segments ==
    {"NVL", " (a, b)", " PCTFREE", " 1", " TABLESPACE users", " SYSDATE", " NUMBER(10,2)",
     " VARCHAR2(10)", " STORAGE (INITIAL 1)"}

RECURSIVE Texts(_)
Texts(n) ==
    IF n = 0 THEN {""}
    ELSE Texts(n - 1) \cup {t \o g : t \in Texts(n - 1), g \in Segments}

InitSyntax ==
    /\ pc = "rewrite"
    /\ sql \in Texts(MaxSegments)
    /\ original_sql = "" /\ procedure_sql = "" /\ entity_mapping = <<>> /\ type_key = ""
    /\ table_mappings = <<>> /\ column_mappings = <<>>
    /\ source_dialect = "" /\ target_dialect = ""
    /\ converted = "" /\ reconverted = "" /\ cursor = 0 /\ result = ConversionResult
    /\ tables = <<>> /\ parts = <<>> /\ frame = <<>> /\ stub = "" /\ defs = <<>>
    /\ Idle

\* converted = self._convert_oracle_syntax(sql)
RewriteOnce ==
    /\ pc = "rewrite"
    /\ converted' = _convert_oracle_syntax(sql)
    /\ pc' = "once"
    /\ UNCHANGED <<original_sql, sql, procedure_sql, entity_mapping, type_key, table_mappings,
                   column_mappings, source_dialect, target_dialect, reconverted, cursor, result,
                   tables, parts, frame, stub, defs, Elsewhere>>

\* reconverted = self._convert_oracle_syntax(converted)
RewriteAgain ==
    /\ pc = "once"
    /\ reconverted' = _convert_oracle_syntax(converted)
    /\ pc' = "twice"
    /\ UNCHANGED <<original_sql, sql, procedure_sql, entity_mapping, type_key, table_mappings,
                   column_mappings, source_dialect, target_dialect, converted, cursor, result,
                   tables, parts, frame, stub, defs, Elsewhere>>

NextSyntax == RewriteOnce \/ RewriteAgain

SpecSyntax == InitSyntax /\ [][NextSyntax]_vars

\* C6: the rewriter is idempotent: run over its own output it changes nothing.
C6_RewriterIdempotent == pc = "twice" => reconverted = converted

\* _convert_oracle_syntax called on its own on one column declaration: a column name, a
\* NUMBER type with or without a precision, and what follows the type
NumberForms ==
    {"NUMBER", "NUMBER(10)", "NUMBER(19)", "NUMBER(1)", "NUMBER(5)", "NUMBER(10,2)",
     "NUMBER(38, 0)", "number(10)"}

NumberPrefixes == {"x ", "(amount ", "NVL(a, b) "}

NumberTrailers == {"", " NOT NULL", ", y DATE", ")", "\n", "y"}

InitNumbers ==
    /\ pc = "rewrite"
    /\ frame \in {<<p, f, e>> : p \in NumberPrefixes, f \in NumberForms, e \in NumberTrailers}
    /\ sql = frame[1] \o frame[2] \o frame[3]
    /\ original_sql = "" /\ procedure_sql = "" /\ entity_mapping = <<>> /\ type_key = ""
    /\ table_mappings = <<>> /\ column_mappings = <<>>
    /\ source_dialect = "" /\ target_dialect = ""
    /\ converted = "" /\ reconverted = "" /\ cursor = 0 /\ result = ConversionResult
    /\ tables = <<>> /\ parts = <<>> /\ stub = "" /\ defs = <<>>
    /\ Idle

SpecNumbers == InitNumbers /\ [][NextSyntax]_vars

\* the type the precision rules give a NUMBER form, "" when none of them is for it
PrecisionType(form) ==
    CASE upper(form) = "NUMBER(10)" -> "INTEGER"
      [] upper(form) = "NUMBER(19)" -> "BIGINT"
      [] upper(form) = "NUMBER(1)" -> "BOOLEAN"
      [] upper(form) = "NUMBER(10,2)" -> "DECIMAL(10,2)"
      [] upper(form) = "NUMBER(38, 0)" -> "DECIMAL(38,0)"
      [] OTHER -> ""

\* C21: _convert_oracle_syntax on its own rewrites NUMBER(10), NUMBER(19) and NUMBER(1),
\* followed by whitespace, a comma, ")" or the end of the text, to INTEGER, BIGINT and
\* BOOLEAN, and NUMBER(p,s) to DECIMAL(p,s); the generic NUMBER -> NUMERIC rule is left
\* the occurrences no precision rule is for, so no NUMERIC(10), NUMERIC(19) or NUMERIC(1)
\* comes out.
C21_PrecisionBeforeGeneric ==
    (pc = "once" /\ frame # <<>> /\ frame[3] # "y") =>
        LET head == IF frame[1] = "NVL(a, b) " THEN "COALESCE(a, b) " ELSE frame[1]
        IN  IF PrecisionType(frame[2]) # ""
            THEN converted = head \o PrecisionType(frame[2]) \o frame[3]
            ELSE converted = head \o "NUMERIC" \o After(frame[2], "NUMBER") \o frame[3]

-----------------------------------------------------------------------------
(* parse_create_table called on one CREATE TABLE statement.  The statement *)
(* is written from defs: a table name, the fragments of its body and what  *)
(* follows the closing parenthesis.                                        *)

MaxColumns == 3

\* a fragment of a table body: its text, and for a column definition the name, the NOT NULL
\* and PRIMARY KEY attributes and the DEFAULT token it declares; plain marks the definitions
\* of the shape "name type[(args)] attrs" with no nested parentheses; for a table-level
\* PRIMARY KEY constraint the name is the column the constraint names
Fragment(text, column, plain, name, not_null, primary_key, default) ==
    [text |-> text, column |-> column, plain |-> plain, name |-> name,
     not_null |-> not_null, primary_key |-> primary_key, default |-> default]

Fragments ==
    {Fragment("order_id NUMBER PRIMARY KEY", TRUE, TRUE, "order_id", FALSE, TRUE, None),
     Fragment("customer_id NUMBER NOT NULL", TRUE, TRUE, "customer_id", TRUE, FALSE, None),
     Fragment("total NUMBER(10,2) DEFAULT 0", TRUE, TRUE, "total", FALSE, FALSE, Some("0")),
     Fragment("unique_code VARCHAR2(20) NOT NULL", TRUE, TRUE, "unique_code", TRUE, FALSE, None),
     Fragment("note VARCHAR2(10) DEFAULT 'x'\n  NOT NULL", TRUE, TRUE, "note", TRUE, FALSE, Some("'x'")),
     Fragment("created DATE DEFAULT COALESCE(a, f(b))", TRUE, FALSE, "created", FALSE, FALSE,
              Some("COALESCE(a, f(b))")),
     Fragment("CHECK (total > 0, f(total))", FALSE, FALSE, "", FALSE, FALSE, None),
     Fragment("PRIMARY KEY (customer_id)", FALSE, FALSE, "customer_id", FALSE, FALSE, None)}

Bodies ==
    {q \in UNION {[1..k -> Fragments] : k \in 1..MaxColumns} :
        \A i, j \in 1..Len(q) : i # j => q[i] # q[j]}

TableNames == {"orders", "Order_Items"}

Tails == {"", " STORAGE (INITIAL 1)"}

\* the statement defs describes
Statement(d) ==
    "CREATE TABLE " \o d.name \o " ("
        \o join(", ", [k \in 1..Len(d.columns) |-> d.columns[k].text]) \o ")" \o d.tail

InitParse ==
    /\ pc = "parse"
    /\ defs \in [name : TableNames, columns : Bodies, tail : Tails]
    /\ sql = Statement(defs)
    /\ original_sql = "" /\ procedure_sql = "" /\ entity_mapping = <<>> /\ type_key = ""
    /\ table_mappings = <<>> /\ column_mappings = <<>>
    /\ source_dialect = "" /\ target_dialect = ""
    /\ converted = "" /\ reconverted = "" /\ cursor = 0 /\ result = ConversionResult
    /\ tables = <<>> /\ parts = <<>> /\ frame = <<>> /\ stub = ""
    /\ Idle

\* the body the first CREATE TABLE match of s captures (match.group(2))
columns_str(s) == CreateTableMatch(s, TableMatches(s)[1])[3]

\* tables = self.parse_create_table(sql); parts is the split _parse_columns makes of the body
ParseCreateTable ==
    /\ pc = "parse"
    /\ tables' = parse_create_table(sql)
    /\ parts' = IF TableMatches(sql) = <<>> THEN <<>> ELSE SplitColumns(columns_str(sql))
    /\ pc' = "parsed"
    /\ UNCHANGED <<original_sql, sql, procedure_sql, entity_mapping, type_key, table_mappings,
                   column_mappings, source_dialect, target_dialect, converted, reconverted,
                   cursor, result, frame, stub, defs, Elsewhere>>

NextParse == ParseCreateTable

SpecParse == InitParse /\ [][NextParse]_vars

\* the name of the first column of d flagged PRIMARY KEY inline, "" when there is none
FirstPrimaryKey(d) ==
    LET flagged == {k \in 1..Len(d.columns) : d.columns[k].primary_key}
    IN  IF flagged = {} THEN "" ELSE d.columns[MinOf(flagged)].name

\* C4: a statement whose body is a list of column definitions "name type[(args)] attrs" parses
\* to one SQLTable with the statement's table name and one column per definition in source
\* order, nullable false exactly where NOT NULL is declared, default the token after DEFAULT
\* (None when absent), primary_key the first column flagged PRIMARY KEY inline; the orders
\* statement gives 3 columns, primary_key order_id, customer_id not nullable, total.default "0".
C4_ParseCreateTable ==
    (/\ pc = "parsed"
     /\ defs.tail = ""
     /\ \A k \in 1..Len(defs.columns) : defs.columns[k].plain)
    => /\ Len(tables) = 1
       /\ tables[1].name = defs.name
       /\ Len(tables[1].columns) = Len(defs.columns)
       /\ \A k \in 1..Len(defs.columns) :
             /\ tables[1].columns[k].name = defs.columns[k].name
             /\ tables[1].columns[k].nullable = ~defs.columns[k].not_null
             /\ tables[1].columns[k].default = defs.columns[k].default
       /\ tables[1].primary_key = FirstPrimaryKey(defs)
       /\ sql = "CREATE TABLE orders (order_id NUMBER PRIMARY KEY, customer_id NUMBER NOT NULL, total NUMBER(10,2) DEFAULT 0)"
             => /\ Len(tables[1].columns) = 3
                /\ tables[1].primary_key = "order_id"
                /\ ~tables[1].columns[2].nullable
                /\ tables[1].columns[3].default = Some("0")

\* the parenthesis depth of position i of s: the "(" before it that no ")" before it closes
Depth(s, i) ==
    Cardinality({k \in 1..(i - 1) : Char(s, k) = "("})
        - Cardinality({k \in 1..(i - 1) : Char(s, k) = ")"})

\* C5: the captured body is split at exactly its commas of parenthesis depth 0.
C5_SplitAtDepthZeroCommas ==
    (pc = "parsed" /\ Len(tables) = 1) =>
        parts = SplitAt(columns_str(sql),
                        {i \in 1..Len(columns_str(sql)) :
                            Char(columns_str(sql), i) = "," /\ Depth(columns_str(sql), i) = 0})

\* the columns that the table-level PRIMARY KEY constraints of d name
TableLevelKeys(d) ==
    {d.columns[k].name : k \in {j \in 1..Len(d.columns) :
        ~d.columns[j].column /\ startswith(d.columns[j].text, "PRIMARY KEY (")}}

\* C13: when the body holds a table-level PRIMARY KEY (col) constraint, primary_key is col,
\* even if another column is flagged PRIMARY KEY inline; with no such constraint it is the
\* first column, in declaration order, flagged PRIMARY KEY inline; with neither it is "".
C13_PrimaryKeyResolution ==
    (pc = "parsed" /\ Len(tables) = 1) =>
        tables[1].primary_key =
            IF TableLevelKeys(defs) # {} THEN CHOOSE c \in TableLevelKeys(defs) : TRUE
            ELSE FirstPrimaryKey(defs)

\* the names of the column definitions of d, in source order
ColumnNames(d) ==
    LET kept == SelectSeq(d.columns, LAMBDA q : q.column)
    IN  [k \in 1..Len(kept) |-> kept[k].name]

\* C29: only the fragments whose first word is the keyword PRIMARY, FOREIGN, UNIQUE, CHECK or
\* CONSTRAINT are left out of the column list: in a body split into its fragments, every
\* column definition is kept, one whose name begins with the letters of a keyword
\* (unique_code) included.
C29_OnlyConstraintsDropped ==
    (/\ pc = "parsed"
     /\ Len(tables) = 1
     /\ Len(parts) = Len(defs.columns)
     /\ \A k \in 1..Len(parts) : strip(parts[k]) = defs.columns[k].text)
    => /\ Len(tables[1].columns) = Len(ColumnNames(defs))
       /\ \A k \in 1..Len(ColumnNames(defs)) : tables[1].columns[k].name = ColumnNames(defs)[k]

-----------------------------------------------------------------------------
(* convert_to_python called on one procedure header.  The header is        *)
(* written from defs: a procedure name and the declarations of its         *)
(* parameters.                                                             *)

MaxParams == 3

\* a parameter declaration: its text, and the name, direction and Python type it declares
Declaration(text, name, direction, python_type) ==
    [text |-> text, name |-> name, direction |-> direction, python_type |-> python_type]

Declarations ==
    {Declaration("p_customer_id IN NUMBER", "customer_id", "IN", "int"),
     Declaration("p_order_id OUT NUMBER", "order_id", "OUT", "int"),
     Declaration("p_status IN OUT VARCHAR2", "status", "INOUT", "str"),
     Declaration("p_name VARCHAR2", "name", "IN", "str"),
     Declaration("p_note IN VARCHAR2(100)", "note", "IN", "str"),
     Declaration("p_count INTEGER", "count", "IN", "int")}

Signatures ==
    {q \in UNION {[1..k -> Declarations] : k \in 0..MaxParams} :
        \A i, j \in 1..Len(q) : i # j => q[i] # q[j]}

ProcedureNames == {"SP_CREATE_ORDER", "SP_X", "SP_GET_USER_ORDERS", "sp_cancel_order"}

EntityMappings == {<<>>, << <<"Order", "Item">> >>}

\* the header defs describes
Header(d) ==
    "CREATE PROCEDURE " \o d.name \o "("
        \o join(", ", [k \in 1..Len(d.params) |-> d.params[k].text]) \o ")"

InitProc ==
    /\ pc = "transpile"
    /\ defs \in [name : ProcedureNames, params : Signatures]
    /\ procedure_sql = Header(defs)
    /\ entity_mapping \in EntityMappings
    /\ original_sql = "" /\ sql = "" /\ type_key = ""
    /\ table_mappings = <<>> /\ column_mappings = <<>>
    /\ source_dialect = "" /\ target_dialect = ""
    /\ converted = "" /\ reconverted = "" /\ cursor = 0 /\ result = ConversionResult
    /\ tables = <<>> /\ parts = <<>> /\ frame = <<>> /\ stub = ""
    /\ Idle

\* stub = self.convert_to_python(procedure_sql, entity_mapping); frame holds its locals
ConvertToPython ==
    /\ pc = "transpile"
    /\ frame' = ProcedureFrame(procedure_sql, entity_mapping)
    /\ stub' = Stub(frame')
    /\ pc' = "transpiled"
    /\ UNCHANGED <<original_sql, sql, procedure_sql, entity_mapping, type_key, table_mappings,
                   column_mappings, source_dialect, target_dialect, converted, reconverted,
                   cursor, result, tables, parts, defs, Elsewhere>>

NextProc == ConvertToPython

SpecProc == InitProc /\ [][NextProc]_vars

\* C9: the leading SP_ is stripped and the rest converted to snake_case: the upper-case name
\* SP_<WORD>_<WORD>... gives the method <word>_<word>..., and SP_CREATE_ORDER gives create_order.
C9_MethodName ==
    (pc = "transpiled" /\ entity_mapping = <<>> /\ startswith(defs.name, "SP_")) =>
        /\ frame.method_name = lower(From(defs.name, 4))
        /\ startswith(stub, "    async def " \o lower(From(defs.name, 4)) \o "(\n")
        /\ defs.name = "SP_CREATE_ORDER" => frame.method_name = "create_order"

\* the declarations of d with a direction among dirs, in declaration order
Declared(d, dirs) == SelectSeq(d.params, LAMBDA q : q.direction \in dirs)

\* the return type the declarations of d call for
DeclaredReturn(d) ==
    LET outs == Declared(d, {"OUT", "INOUT"})
    IN  IF Len(outs) = 0 THEN "None"
        ELSE IF Len(outs) = 1 THEN outs[1].python_type
        ELSE "dict[str, Any]"

\* the parameter list the declarations of d call for
DeclaredParameters(d) ==
    LET ins == Declared(d, {"IN", "INOUT"})
    IN  join(", ", [k \in 1..Len(ins) |-> ins[k].name \o ": " \o ins[k].python_type])

\* s ends with e
endswith(s, e) == Len(e) <= Len(s) /\ SubSeq(s, Len(s) - Len(e) + 1, Len(s)) = e

\* C10: the parameter list after self holds exactly the IN and INOUT parameters (IN when no
\* keyword is given, IN OUT read as INOUT) in declaration order, each without its p_ and with
\* its mapped type; the return type is None without OUT/INOUT parameters, the parameter's type
\* with one, dict[str, Any] with more; the body is the placeholder; SP_CREATE_ORDER(p_customer_id
\* IN NUMBER, p_order_id OUT NUMBER) gets the one parameter customer_id: int and returns int.
C10_StubSignature ==
    (pc = "transpiled" /\ entity_mapping = <<>>) =>
        /\ frame.param_str = DeclaredParameters(defs)
        /\ frame.return_type = DeclaredReturn(defs)
        /\ Contains(stub,
              "(\n        self,\n"
              \o (IF DeclaredParameters(defs) = "" THEN ""
                  ELSE "        " \o DeclaredParameters(defs) \o ",\n")
              \o "    ) -> " \o DeclaredReturn(defs) \o ":\n")
        /\ endswith(stub, "\n        # TODO: Implement business logic\n        pass")
        /\ procedure_sql = "CREATE PROCEDURE SP_CREATE_ORDER(p_customer_id IN NUMBER, p_order_id OUT NUMBER)"
              => frame.param_str = "customer_id: int" /\ frame.return_type = "int"

\* C26: the parameter list is split on its top-level commas only, so a header declaring n
\* parameters, types with a parenthesised qualifier included, gives exactly n parameters, and
\* every parameter declared after one with a parenthesised type is parsed, with its name and
\* direction, into the signature or the return shape.
C26_EveryParameterParsed ==
    (pc = "transpiled" /\ entity_mapping = <<>>) =>
        /\ Len(frame.params) = Len(defs.params)
        /\ \A k \in 1..Len(defs.params) :
               /\ k <= Len(frame.params)
               /\ frame.params[k].name = defs.params[k].name
               /\ frame.params[k].direction = defs.params[k].direction
        /\ Len(frame.in_params) = Len(Declared(defs, {"IN", "INOUT"}))
        /\ Len(frame.out_params) = Len(Declared(defs, {"OUT", "INOUT"}))

\* C27: every parameter "name [IN|OUT|IN OUT] type", with or without a direction keyword, is
\* recorded with the classification of its full declared type; "p_count INTEGER" is recorded
\* with direction IN, source type INTEGER and mapped type int.
C27_ParameterTypes ==
    pc = "transpiled" =>
        /\ \A k \in 1..Len(frame.params) :
               k <= Len(defs.params) =>
                   /\ frame.params[k].python_type = defs.params[k].python_type
                   /\ frame.params[k].python_type = _oracle_type_to_python(frame.params[k].oracle_type)
        /\ (Len(defs.params) = 1 /\ defs.params[1].text = "p_count INTEGER") =>
               /\ Len(frame.params) = 1
               /\ frame.params[1].direction = "IN"
               /\ frame.params[1].oracle_type = "INTEGER"
               /\ frame.params[1].python_type = "int"


-----------------------------------------------------------------------------
(* parse_create_table called on a statement with foreign-key constraints   *)
(* and misshapen fragments, or on a text that holds no statement.          *)

MaxPieces == 3

\* a fragment of a table body: its text, its kind ("column", "foreign_key", "other"), the
\* column name it declares and the foreign-key record it declares
Piece(text, kind, name, key) == [text |-> text, kind |-> kind, name |-> name, key |-> key]

ForeignKey(column, references_table, references_column) ==
    [column |-> column, references_table |-> references_table, references_column |-> references_column]

Pieces ==
    {Piece("order_id NUMBER PRIMARY KEY", "column", "order_id", None),
     Piece("customer_id NUMBER NOT NULL", "column", "customer_id", None),
     Piece("FOREIGN KEY (customer_id) REFERENCES customers (id)", "foreign_key", "",
           ForeignKey("customer_id", "customers", "id")),
     Piece("CONSTRAINT fk_item FOREIGN KEY (item_id) REFERENCES items(item_id) ON DELETE CASCADE",
           "foreign_key", "", ForeignKey("item_id", "items", "item_id")),
     Piece("foreign key (region_id)\n  references regions (id)", "foreign_key", "",
           ForeignKey("region_id", "regions", "id")),
     Piece("id", "other", "", None),
     Piece("", "other", "", None)}

\* the bodies: fragments without repetition, not the body that is empty
PieceBodies ==
    {q \in UNION {[1..k -> Pieces] : k \in 1..MaxPieces} :
        /\ \A i, j \in 1..Len(q) : i # j => q[i] # q[j]
        /\ q # <<Piece("", "other", "", None)>>}

Openings == {"CREATE TABLE ", "create table if not exists "}

\* texts in which no CREATE TABLE [IF NOT EXISTS] name ( body ) stands
MissTexts ==
    {"", "SELECT 1 FROM orders", "CREATE TABLE orders ()", "CREATE TABLE hr.orders (id NUMBER)",
     "CREATE TABLE orders (id NUMBER", "CREATE TABLE orders; (id NUMBER)",
     "CREATE INDEX orders_idx ON orders (id)", "CREATE TABLE orders AS SELECT 1",
     "CREATE GLOBAL TEMPORARY TABLE orders (id NUMBER)"}

\* the text defs describes
TableText(d) ==
    IF d.statement
    THEN d.opening \o d.name \o " (" \o join(", ", [k \in 1..Len(d.columns) |-> d.columns[k].text]) \o ")"
    ELSE d.text

InitConstraints ==
    /\ pc = "parse"
    /\ defs \in [statement : {TRUE}, opening : Openings, name : {"order_items"}, columns : PieceBodies, text : {""}]
                \cup [statement : {FALSE}, opening : {""}, name : {""}, columns : {<<>>}, text : MissTexts]
    /\ sql = TableText(defs)
    /\ original_sql = "" /\ procedure_sql = "" /\ entity_mapping = <<>> /\ type_key = ""
    /\ table_mappings = <<>> /\ column_mappings = <<>>
    /\ source_dialect = "" /\ target_dialect = ""
    /\ converted = "" /\ reconverted = "" /\ cursor = 0 /\ result = ConversionResult
    /\ tables = <<>> /\ parts = <<>> /\ frame = <<>> /\ stub = ""
    /\ Idle

NextConstraints == ParseCreateTable

SpecConstraints == InitConstraints /\ [][NextConstraints]_vars

\* the fragments of d of one kind, in source order
PiecesOf(d, kind) == SelectSeq(d.columns, LAMBDA p : p.kind = kind)

\* C14: a body with k constraints FOREIGN KEY (col) REFERENCES table (col) gives exactly k
\* records in foreign_keys, one per constraint in source order, each with the constraint's
\* column, referenced table and referenced column; none is dropped or merged, and the
\* constraint fragments add no entry to the columns list.
C14_ForeignKeysCollected ==
    (pc = "parsed" /\ defs.statement) =>
        /\ Len(tables) = 1
        /\ Len(tables[1].foreign_keys) = Len(PiecesOf(defs, "foreign_key"))
        /\ \A k \in 1..Len(tables[1].foreign_keys) :
              tables[1].foreign_keys[k] = PiecesOf(defs, "foreign_key")[k].key
        /\ Len(tables[1].columns) <= Len(PiecesOf(defs, "column"))
        /\ \A k \in 1..Len(tables[1].columns) :
              \E j \in 1..Len(defs.columns) :
                  defs.columns[j].kind = "column" /\ defs.columns[j].name = tables[1].columns[k].name

\* a table with two foreign keys and a column
C14_Witness ==
    /\ pc = "parsed" /\ defs.statement
    /\ Len(PiecesOf(defs, "foreign_key")) = 2
    /\ Len(tables) = 1 /\ Len(tables[1].foreign_keys) = 2 /\ Len(tables[1].columns) = 1

\* C16: a text that holds no CREATE TABLE [IF NOT EXISTS] name ( body ) statement parses to
\* the empty list; a fragment of a body that has not the shape "name type attrs" is skipped,
\* and every other column of the table is parsed as it is when it stands alone.
C16_ParseMiss ==
    pc = "parsed" =>
        /\ ~defs.statement => tables = <<>>
        /\ defs.statement =>
              /\ Len(tables) = 1
              /\ Len(tables[1].columns) = Len(PiecesOf(defs, "column"))
              /\ \A k \in 1..Len(tables[1].columns) :
                    /\ tables[1].columns[k].name = PiecesOf(defs, "column")[k].name
                    /\ <<tables[1].columns[k]>> = _parse_columns(PiecesOf(defs, "column")[k].text)

\* a misshapen fragment between two columns, both of them parsed
C16_Witness ==
    /\ pc = "parsed" /\ defs.statement
    /\ Len(defs.columns) = 3 /\ defs.columns[2].text = "id"
    /\ Len(tables) = 1 /\ Len(tables[1].columns) = 2

-----------------------------------------------------------------------------
(* convert_to_python called on texts that do and do not start with         *)
(* CREATE [OR REPLACE] PROCEDURE name(params).  The text is written from   *)
(* defs: what stands before the name, the name, and what follows it.       *)

\* openings of the form CREATE [OR REPLACE] PROCEDURE, in any letter case and spacing
FormOpenings == {"CREATE PROCEDURE ", "CREATE OR REPLACE PROCEDURE ", "create or  replace\nprocedure "}

OtherOpenings ==
    {"", " CREATE PROCEDURE ", "-- header\nCREATE PROCEDURE ", "CREATE FUNCTION ",
     "CREATE OR PROCEDURE ", "CREATEPROCEDURE ", "ALTER PROCEDURE "}

\* procedure names that are one word
FormNames == {"sp_x", "SP_GET_ORDER"}

OtherNames == {"hr.sp_x"}

\* a parenthesised parameter list, and what may follow it
FormParameters ==
    {"()", "(p_id IN NUMBER) IS BEGIN NULL; END;", " ( p_a IN NUMBER, p_b OUT VARCHAR2 )"}

OtherParameters == {"", "(p_id IN NUMBER", " IS BEGIN f(); END;"}

InitSentinel ==
    /\ pc = "transpile"
    /\ defs \in [opening : FormOpenings \cup OtherOpenings, name : FormNames \cup OtherNames,
                 params : FormParameters \cup OtherParameters]
    /\ procedure_sql = defs.opening \o defs.name \o defs.params
    /\ entity_mapping \in EntityMappings
    /\ original_sql = "" /\ sql = "" /\ type_key = ""
    /\ table_mappings = <<>> /\ column_mappings = <<>>
    /\ source_dialect = "" /\ target_dialect = ""
    /\ converted = "" /\ reconverted = "" /\ cursor = 0 /\ result = ConversionResult
    /\ tables = <<>> /\ parts = <<>> /\ frame = <<>> /\ stub = ""
    /\ Idle

NextSentinel == ConvertToPython

SpecSentinel == InitSentinel /\ [][NextSentinel]_vars

\* the text of d starts with CREATE [OR REPLACE] PROCEDURE name(params)
HasForm(d) ==
    d.opening \in FormOpenings /\ d.name \in FormNames /\ d.params \in FormParameters

\* C17: on a text that does not start with CREATE [OR REPLACE] PROCEDURE name(params),
\* convert_to_python returns the sentinel "# Could not parse procedure" and no method stub;
\* on a text that does, it returns a method stub and never the sentinel.
C17_SentinelOnParseFailure ==
    pc = "transpiled" =>
        /\ ~HasForm(defs) => stub = "# Could not parse procedure"
        /\ HasForm(defs) =>
              /\ startswith(stub, "    async def ")
              /\ ~Contains(stub, "# Could not parse procedure")

\* a text that holds the form after a comment line, and so does not start with it
C17_Witness ==
    /\ pc = "transpiled"
    /\ procedure_sql = "-- header\nCREATE PROCEDURE sp_x()"
    /\ stub = "# Could not parse procedure"

-----------------------------------------------------------------------------
(* Migration Differ: SQLConverter.generate_migration.                      *)

\* {t.name: t for t in tables}: the dict without the lower-casing of the keys
RECURSIVE TableDictCased(_)
TableDictCased(ts) ==
    IF ts = <<>> THEN <<>>
    ELSE DictSet(TableDictCased(SubSeq(ts, 1, Len(ts) - 1)), ts[Len(ts)].name, ts[Len(ts)])

\* {t.name.lower(): t for t in tables}: a key keeps the position of its first table and the value of its last
RECURSIVE TableDict(_)
TableDict(ts) ==
    IF ts = <<>> THEN <<>>
    ELSE DictSet(TableDict(SubSeq(ts, 1, Len(ts) - 1)), lower(ts[Len(ts)].name), ts[Len(ts)])

\* a test that lets every name through
AlwaysMissing(name, dict) == TRUE

\* name not in dict
Missing(name, dict) == ~HasKey(dict, name)

\* the three lines appended for a table of to_dict that from_dict lacks
CreateEntry(table) == <<"-- Create new table: " \o table.name, table.original_sql, "">>

\* the three lines appended for a table of from_dict that to_dict lacks
DropEntry(table) ==
    <<"-- Drop table: " \o table.name, "DROP TABLE IF EXISTS " \o table.name \o " CASCADE;", "">>

MaxTables == 2

\* the statements the tables of the snapshots were parsed from
SnapshotTexts ==
    {"CREATE TABLE users (id NUMBER PRIMARY KEY)",
     "CREATE TABLE Users (user_id INTEGER NOT NULL, account_id INTEGER, FOREIGN KEY (account_id) REFERENCES accounts (id))",
     "CREATE TABLE orders (order_id NUMBER PRIMARY KEY)",
     "CREATE TABLE items (item_id NUMBER)"}

SnapshotTables == {parse_create_table(t)[1] : t \in SnapshotTexts}

Snapshots == UNION {[1..n -> SnapshotTables] : n \in 0..MaxTables}

InitMigrate ==
    /\ pc = "migrate"
    /\ from_tables \in Snapshots /\ to_tables \in Snapshots
    /\ lines = <<>> /\ migration = ""
    /\ shared = <<>> /\ calls = <<>> /\ type_map = <<>> /\ applied = <<>>
    /\ original_sql = "" /\ sql = "" /\ procedure_sql = "" /\ entity_mapping = <<>> /\ type_key = ""
    /\ table_mappings = <<>> /\ column_mappings = <<>>
    /\ source_dialect = "" /\ target_dialect = ""
    /\ converted = "" /\ reconverted = "" /\ cursor = 0 /\ result = ConversionResult
    /\ tables = <<>> /\ parts = <<>> /\ frame = <<>> /\ stub = "" /\ defs = <<>>

NotMigration ==
    <<original_sql, sql, procedure_sql, entity_mapping, type_key, table_mappings, column_mappings,
      source_dialect, target_dialect, converted, reconverted, result, tables, parts, stub, defs,
      shared, calls, type_map, applied>>

\* the header lines, then from_dict and to_dict
IndexTables ==
    /\ pc = "migrate"
    /\ lines' = <<"-- Migration Script", "-- Generated by ReferenceGenerator SQLConverter", "">>
    /\ frame' = [from_dict |-> TableDict(from_tables), to_dict |-> TableDict(to_tables)]
    /\ cursor' = 1
    /\ pc' = "create"
    /\ UNCHANGED <<NotMigration, from_tables, to_tables, migration>>

\* one round of `for name, table in to_dict.items()`, or the end of the loop
CreateNewTables ==
    /\ pc = "create"
    /\ IF cursor <= Len(frame.to_dict)
       THEN /\ lines' = IF Missing(frame.to_dict[cursor][1], frame.from_dict)
                        THEN lines \o CreateEntry(frame.to_dict[cursor][2])
                        ELSE lines
            /\ cursor' = cursor + 1
            /\ pc' = pc
       ELSE /\ cursor' = 1
            /\ pc' = "drop"
            /\ lines' = lines
    /\ UNCHANGED <<NotMigration, from_tables, to_tables, migration, frame>>

\* one round of `for name, table in from_dict.items()`, or the end of the loop
DropOldTables ==
    /\ pc = "drop"
    /\ IF cursor <= Len(frame.from_dict)
       THEN /\ lines' = IF Missing(frame.from_dict[cursor][1], frame.to_dict)
                        THEN lines \o DropEntry(frame.from_dict[cursor][2])
                        ELSE lines
            /\ cursor' = cursor + 1
            /\ pc' = pc
       ELSE /\ cursor' = cursor
            /\ pc' = "join"
            /\ lines' = lines
    /\ UNCHANGED <<NotMigration, from_tables, to_tables, migration, frame>>

\* return "\n".join(lines)
JoinLines ==
    /\ pc = "join"
    /\ migration' = join("\n", lines)
    /\ pc' = "migrated"
    /\ UNCHANGED <<NotMigration, from_tables, to_tables, lines, frame, cursor>>

NextMigrate == IndexTables \/ CreateNewTables \/ DropOldTables \/ JoinLines

SpecMigrate == InitMigrate /\ [][NextMigrate]_vars

\* the lower-cased names of the tables of a snapshot
Names(ts) == {lower(ts[i].name) : i \in 1..Len(ts)}

\* the positions of `lines` holding a line that starts with p
LinesStarting(p) == {i \in 1..Len(lines) : startswith(lines[i], p)}

\* the CREATE entry of some table of ts named n (in any letter case) stands in `lines`
CreatedFrom(ts, n) ==
    \E k \in 1..Len(ts) : \E i \in 1..(Len(lines) - 2) :
        /\ lower(ts[k].name) = n
        /\ SubSeq(lines, i, i + 2) = <<"-- Create new table: " \o ts[k].name, ts[k].original_sql, "">>

\* the DROP entry of some table of ts named n (in any letter case) stands in `lines`
DroppedFrom(ts, n) ==
    \E k \in 1..Len(ts) : \E i \in 1..(Len(lines) - 2) :
        /\ lower(ts[k].name) = n
        /\ SubSeq(lines, i, i + 2) = <<"-- Drop table: " \o ts[k].name,
                                      "DROP TABLE IF EXISTS " \o ts[k].name \o " CASCADE;", "">>

\* C11: the returned script holds one CREATE entry, carrying the original_sql of a table of
\* to_tables, for exactly the lower-cased names that are in to_tables and not in from_tables,
\* and one `DROP TABLE IF EXISTS <name> CASCADE;` for exactly the lower-cased names that are in
\* from_tables and not in to_tables; it holds no other CREATE or DROP entry.
C11_CreateAndDropEntries ==
    pc = "migrated" =>
        /\ \A n \in Names(to_tables) \cup Names(from_tables) :
              /\ CreatedFrom(to_tables, n) <=> (n \in Names(to_tables) \ Names(from_tables))
              /\ DroppedFrom(from_tables, n) <=> (n \in Names(from_tables) \ Names(to_tables))
        /\ Cardinality(LinesStarting("-- Create new table: ")) = Cardinality(Names(to_tables) \ Names(from_tables))
        /\ Cardinality(LinesStarting("CREATE ")) = Cardinality(Names(to_tables) \ Names(from_tables))
        /\ Cardinality(LinesStarting("DROP ")) = Cardinality(Names(from_tables) \ Names(to_tables))
        /\ migration = join("\n", lines)

\* from = [A, B], to = [B, C] with B in another letter case: CREATE for C, DROP for A, nothing for B
C11_Witness ==
    /\ pc = "migrated"
    /\ Len(from_tables) = 2 /\ Len(to_tables) = 2
    /\ from_tables[1].name = "orders" /\ from_tables[2].name = "users"
    /\ to_tables[1].name = "Users" /\ to_tables[2].name = "items"
    /\ LinesStarting("CREATE ") # {} /\ LinesStarting("DROP ") # {}

\* C12: a table whose lower-cased name is in both snapshots is left alone, whatever the two
\* snapshots say about its columns, keys, original_sql or the letter case of its name: no line
\* of the script mentions the name, and the script holds no ALTER statement.
C12_CommonTablesUntouched ==
    pc = "migrated" =>
        /\ \A n \in Names(from_tables) \cap Names(to_tables) :
              \A i \in 1..Len(lines) : ~Contains(lower(lines[i]), n)
        /\ \A i \in 1..Len(lines) : ~Contains(upper(lines[i]), "ALTER")

\* a table in both snapshots that differs in letter case, columns, keys and text, beside a new table
C12_Witness ==
    /\ pc = "migrated"
    /\ \E i \in 1..Len(from_tables) : \E j \in 1..Len(to_tables) :
          /\ lower(from_tables[i].name) = lower(to_tables[j].name)
          /\ from_tables[i].name # to_tables[j].name
          /\ from_tables[i].columns # to_tables[j].columns
          /\ from_tables[i].primary_key # to_tables[j].primary_key
          /\ from_tables[i].foreign_keys # to_tables[j].foreign_keys
          /\ from_tables[i].original_sql # to_tables[j].original_sql
    /\ Len(lines) > 3


-----------------------------------------------------------------------------
(* Calls that share one converter.  Two callers each run one call of       *)
(* convert_schema, parse_create_table, generate_migration or               *)
(* convert_to_python, one stage at a time and in any interleaving; the     *)
(* stages read the mapping tables from `shared`.                           *)

\* the module-level tables and the _type_mappings of the instance, as __init__ leaves them
SharedTables ==
    [ORACLE_TO_POSTGRES |-> ORACLE_TO_POSTGRES,
     MYSQL_TO_POSTGRES  |-> MYSQL_TO_POSTGRES,
     _type_mappings     |-> _type_mappings]

\* the loop of step 3 over table_mappings
RECURSIVE RenameTables(_, _)
RenameTables(text, maps) ==
    IF maps = <<>> THEN text
    ELSE RenameTables(_replace_table_name(text, Head(maps)[1], Head(maps)[2]), Tail(maps))

\* the loops of step 4 over column_mappings
RECURSIVE RenameColumns(_, _)
RenameColumns(text, maps) ==
    IF maps = <<>> THEN text
    ELSE RenameColumns(_replace_column_name(text, Head(maps)[1], Head(maps)[2], Head(maps)[3]), Tail(maps))

\* result.transformations after step 4: t.column_mappings[old_col] = new_col where t.original_table == table
RECURSIVE NoteColumns(_, _)
NoteColumns(transformations, maps) ==
    IF maps = <<>> THEN transformations
    ELSE NoteColumns([i \in 1..Len(transformations) |->
                         IF transformations[i].original_table = Head(maps)[1]
                         THEN [transformations[i] EXCEPT
                                  !.column_mappings = DictSet(@, Head(maps)[2], Head(maps)[3])]
                         ELSE transformations[i]],
                     Tail(maps))

\* one stage of convert_schema on the converter whose tables are sh
SchemaStage(call, sh) ==
    LET a   == call.args
        key == TypeKey(a.source_dialect, a.target_dialect)
    IN  CASE call.pc = "start" ->
                [call EXCEPT !.pc = "syntax",
                             !.converted = IF HasKey(sh._type_mappings, key)
                                           THEN _convert_types(a.original_sql, Lookup(sh._type_mappings, key))
                                           ELSE a.original_sql]
          [] call.pc = "syntax" ->
                [call EXCEPT !.pc = "tables",
                             !.converted = IF a.source_dialect = "oracle"
                                           THEN _convert_oracle_syntax(@) ELSE @]
          [] call.pc = "tables" ->
                [call EXCEPT !.pc = "columns",
                             !.converted = RenameTables(@, a.table_mappings),
                             !.result = [@ EXCEPT
                                 !.transformations = [i \in 1..Len(a.table_mappings) |->
                                     SQLTransformation(a.table_mappings[i][1], a.table_mappings[i][2], key)],
                                 !.tables_converted = [i \in 1..Len(a.table_mappings) |->
                                     a.table_mappings[i][1] \o " -> " \o a.table_mappings[i][2]]]]
          [] call.pc = "columns" ->
                [call EXCEPT !.pc = "sequences",
                             !.converted = RenameColumns(@, a.column_mappings),
                             !.result = [@ EXCEPT !.transformations = NoteColumns(@, a.column_mappings)]]
          [] call.pc = "sequences" ->
                [call EXCEPT !.pc = "clean",
                             !.converted = IF a.source_dialect = "oracle" /\ a.target_dialect = "postgresql"
                                           THEN _convert_sequences(@) ELSE @]
          [] call.pc = "clean" ->
                [call EXCEPT !.pc = "done",
                             !.converted = _clean_sql(@),
                             !.result = [@ EXCEPT !.success = TRUE,
                                                  !.converted_sql = _clean_sql(call.converted)]]

\* the lines of the loop over to_dict (entry = "create") or over from_dict (entry = "drop")
MigrationEntries(dict, other, entry) ==
    LET RECURSIVE go(_)
        go(k) == IF k > Len(dict) THEN <<>>
                 ELSE (IF Missing(dict[k][1], other)
                       THEN (IF entry = "create" THEN CreateEntry(dict[k][2]) ELSE DropEntry(dict[k][2]))
                       ELSE <<>>) \o go(k + 1)
    IN  go(1)

generate_migration(from, to) ==
    join("\n", <<"-- Migration Script", "-- Generated by ReferenceGenerator SQLConverter", "">>
               \o MigrationEntries(TableDict(to), TableDict(from), "create")
               \o MigrationEntries(TableDict(from), TableDict(to), "drop"))

\* one stage of a call on the converter whose tables are sh
Stage(call, sh) ==
    CASE call.op = "convert_schema" -> SchemaStage(call, sh)
      [] call.op = "parse_create_table" ->
            [call EXCEPT !.pc = "done", !.result = parse_create_table(call.args.sql)]
      [] call.op = "generate_migration" ->
            [call EXCEPT !.pc = "done",
                         !.result = generate_migration(call.args.from_tables, call.args.to_tables)]
      [] call.op = "convert_to_python" ->
            [call EXCEPT !.pc = "done",
                         !.result = convert_to_python(call.args.procedure_sql, call.args.entity_mapping)]

\* a converter whose type stage takes the table it used out of _type_mappings
SharedAfterPop(call, sh) ==
    IF call.op = "convert_schema" /\ call.pc = "start"
    THEN [sh EXCEPT !._type_mappings =
             SelectSeq(@, LAMBDA e : e[1] # TypeKey(call.args.source_dialect, call.args.target_dialect))]
    ELSE sh

\* the tables after a stage of a call: no stage assigns to them
SharedAfter(call, sh) == sh

\* a call at its entry
Call(op, args) ==
    [op |-> op, args |-> args, pc |-> "start", converted |-> "",
     result |-> IF op = "convert_schema" THEN ConversionResult ELSE <<>>]

SchemaCalls ==
    {Call("convert_schema", [original_sql |-> t, table_mappings |-> m[1], column_mappings |-> m[2],
                             source_dialect |-> d[1], target_dialect |-> d[2]]) :
        t \in {"CREATE TABLE users (id NUMBER(10), orders_id NUMBER) TABLESPACE users",
               "id INTEGER DEFAULT s.NEXTVAL, total NUMBER"},
        m \in {<< <<>>, <<>> >>,
               << << <<"users", "products">> >>, << <<"users", "id", "user_id">> >> >>},
        d \in {<<"oracle", "postgresql">>, <<"mysql", "postgresql">>}}

OtherCalls ==
    {Call("parse_create_table",
          [sql |-> "CREATE TABLE orders (order_id NUMBER PRIMARY KEY, customer_id NUMBER NOT NULL)"]),
     Call("generate_migration",
          [from_tables |-> parse_create_table("CREATE TABLE users (id NUMBER PRIMARY KEY)"),
           to_tables   |-> parse_create_table("CREATE TABLE Users (id INTEGER); CREATE TABLE items (item_id NUMBER)")]),
     Call("convert_to_python",
          [procedure_sql |-> "CREATE PROCEDURE sp_get_order(p_id IN NUMBER, p_total OUT NUMBER)",
           entity_mapping |-> << <<"order", "item">> >>])}

Callers == {"first", "second"}

\* the result of a call that runs alone on a fresh converter
RunAlone(call) ==
    LET RECURSIVE run(_)
        run(k) == IF k.pc = "done" THEN k.result ELSE run(Stage(k, SharedTables))
    IN  run(call)

InitShared ==
    /\ pc = "shared"
    /\ shared = SharedTables
    /\ calls \in [Callers -> SchemaCalls \cup OtherCalls]
    /\ defs = [c \in Callers |-> RunAlone(calls[c])]
    /\ from_tables = <<>> /\ to_tables = <<>> /\ lines = <<>> /\ migration = ""
    /\ type_map = <<>> /\ applied = <<>>
    /\ original_sql = "" /\ sql = "" /\ procedure_sql = "" /\ entity_mapping = <<>> /\ type_key = ""
    /\ table_mappings = <<>> /\ column_mappings = <<>>
    /\ source_dialect = "" /\ target_dialect = ""
    /\ converted = "" /\ reconverted = "" /\ cursor = 0 /\ result = ConversionResult
    /\ tables = <<>> /\ parts = <<>> /\ frame = <<>> /\ stub = ""

NotShared ==
    <<pc, original_sql, sql, procedure_sql, entity_mapping, type_key, table_mappings, column_mappings,
      source_dialect, target_dialect, converted, reconverted, cursor, result, tables, parts, frame,
      stub, defs, from_tables, to_tables, lines, migration, type_map, applied>>

\* caller c runs the next stage of its call
CallStage(c) ==
    /\ calls[c].pc # "done"
    /\ calls' = [calls EXCEPT ![c] = Stage(calls[c], shared)]
    /\ shared' = SharedAfter(calls[c], shared)
    /\ UNCHANGED NotShared

NextShared == \E c \in Callers : CallStage(c)

SpecShared == InitShared /\ [][NextShared]_vars

-----------------------------------------------------------------------------
(* The loop of _convert_types, one key at a time, on the two tables, on    *)
(* the two tables in reverse insertion order, and on small tables in every *)
(* insertion order.                                                        *)

MaxKeys == 3

\* the entries the small tables are made of; NUMBER and BIGINT have the same length
SmallEntries ==
    {<<"INT", "INTEGER">>, <<"NUMBER", "NUMERIC">>, <<"BIGINT", "BIGINT">>,
     <<"VARCHAR2", "VARCHAR">>, <<"NUMBER(10)", "INTEGER">>}

SmallTables ==
    {q \in UNION {[1..n -> SmallEntries] : n \in 1..MaxKeys} :
        \A i, j \in 1..Len(q) : i # j => q[i] # q[j]}

Reversed(map) == [i \in 1..Len(map) |-> map[Len(map) + 1 - i]]

TypeTables ==
    {ORACLE_TO_POSTGRES, MYSQL_TO_POSTGRES, Reversed(ORACLE_TO_POSTGRES), Reversed(MYSQL_TO_POSTGRES)}
        \cup SmallTables

InitOrder ==
    /\ pc = "sort"
    /\ type_map \in TypeTables
    /\ sql \in {"x NUMBER(10), y VARCHAR2(30), z BIGINT", "a INT, b NUMBER"}
    /\ converted = sql
    /\ applied = <<>>
    /\ from_tables = <<>> /\ to_tables = <<>> /\ lines = <<>> /\ migration = ""
    /\ shared = <<>> /\ calls = <<>>
    /\ original_sql = "" /\ procedure_sql = "" /\ entity_mapping = <<>> /\ type_key = ""
    /\ table_mappings = <<>> /\ column_mappings = <<>>
    /\ source_dialect = "" /\ target_dialect = ""
    /\ reconverted = "" /\ cursor = 0 /\ result = ConversionResult
    /\ tables = <<>> /\ parts = <<>> /\ frame = <<>> /\ stub = "" /\ defs = <<>>

NotOrder ==
    <<original_sql, sql, procedure_sql, entity_mapping, type_key, table_mappings, column_mappings,
      source_dialect, target_dialect, reconverted, result, tables, parts, stub, defs,
      from_tables, to_tables, lines, migration, shared, calls, type_map>>

\* sorted_types = sorted(type_map.keys(), key=len, reverse=True)
SortKeys ==
    /\ pc = "sort"
    /\ frame' = sorted_types(type_map)
    /\ cursor' = 1
    /\ pc' = "substitute"
    /\ UNCHANGED <<NotOrder, converted, applied>>

\* one round of the loop: converted = re.sub(pattern, ..., converted) for the next key
SubstituteKey ==
    /\ pc = "substitute"
    /\ cursor <= Len(frame)
    /\ converted' = TypeSub(converted, frame[cursor], Lookup(type_map, frame[cursor]))
    /\ applied' = Append(applied, frame[cursor])
    /\ cursor' = cursor + 1
    /\ UNCHANGED <<NotOrder, frame, pc>>

\* return converted
ReturnConverted ==
    /\ pc = "substitute"
    /\ cursor > Len(frame)
    /\ pc' = "substituted"
    /\ UNCHANGED <<NotOrder, frame, converted, applied, cursor>>

NextOrder == SortKeys \/ SubstituteKey \/ ReturnConverted

SpecOrder == InitOrder /\ [][NextOrder]_vars

\* the positions of key k in the history of substitutions
AppliedAt(k) == {i \in 1..Len(applied) : applied[i] = k}

\* C20: the keys are tried longest first: whenever the substitution for a key has run, the
\* substitution for every longer key of the table has run before it, whatever the table and
\* the insertion order of its keys; at the return every key has been tried exactly once.
C20_LongestKeyFirst ==
    /\ \A i \in 1..Len(type_map) : \A j \in 1..Len(type_map) :
          (Len(type_map[i][1]) > Len(type_map[j][1]) /\ AppliedAt(type_map[j][1]) # {})
              => /\ AppliedAt(type_map[i][1]) # {}
                 /\ MaxOf(AppliedAt(type_map[i][1])) < MinOf(AppliedAt(type_map[j][1]))
    /\ pc = "substituted" =>
          /\ Len(applied) = Len(type_map)
          /\ \A i \in 1..Len(type_map) : Cardinality(AppliedAt(type_map[i][1])) = 1
          /\ converted = _convert_types(sql, type_map)

\* a table that holds NUMBER before NUMBER(10), both tried, NUMBER(10) first
C20_Witness ==
    /\ pc = "substituted"
    /\ Len(type_map) >= 2 /\ type_map[1][1] = "NUMBER" /\ type_map[2][1] = "NUMBER(10)"
    /\ Len(applied) >= 2 /\ applied[1] = "NUMBER(10)"
    /\ AppliedAt("NUMBER") # {}

=============================================================================
